---- MODULE Spec2Model ----
(***************************************************************************)
(* Verification model of the beat-detector crate.                          *)
(*                                                                         *)
(* Numbers.  An f32 sample is modelled as an integer count of 1/10000      *)
(* (so 0.05 is 500 and 1.0 is 10000); a rounded peak value is an integer   *)
(* count of 1/1000.  A time is an integer count of microseconds; a         *)
(* rounded relative time is an integer count of milliseconds.  Arithmetic  *)
(* is exact: the binary rounding error of f32 is not modelled.             *)
(* The biquad filters of the band analyzer run in fixed point: their       *)
(* coefficients are counts of 1/1000, every output sample is rounded to a  *)
(* count of 1/10000.                                                       *)
(***************************************************************************)
EXTENDS Integers, Sequences, FiniteSets, TLC

VARIABLES
    ring_buffer,        \* RingBufferWithSerialSliceAccess (AudioHistory.ring_buffer)
    meta,               \* AudioHistoryMeta (AudioHistory.meta)
    envelope_detector,  \* EnvelopeDetector
    result,             \* what the last operation returned to its caller
    pushed,             \* history: items pushed since construction or the last clear
    consumed,           \* history: number of samples handed to AudioHistory.update
    old_len,            \* history: AudioHistory.len() before the latest update
    chunk_len,          \* history: length of the chunk of the latest update
    envelopes,          \* history: the envelopes returned so far, oldest first
    samples,            \* the signal slice of the peak primitives under test
    start,              \* preferred_start_index of the peak primitives under test
    zero_iter,          \* ZeroOfFunctionIterator
    minmax_iter,        \* LocalMinMaxIterator
    yielded,            \* history: what the iterator under test has yielded so far
    beat_detector,      \* BeatDetector
    band_pass_samples_buffer, \* the ring buffer BandAnalyzer::detect_envelope fills
    log,                \* the warnings logged by the latest on_new_audio call
    observed,           \* history: what the on_new_audio calls consumed and produced
    band_args,          \* arguments and build of the BandAnalyzer::new call under test
    cfg,                \* the input config found by start_listening, or None
    keep_recording,     \* CondVarSpinlock: the flag, its mutex and its condvar
    stream,             \* the cpal input stream: "built", "playing", "paused"
    pc,                 \* position of the thread in start_listening and of the one in stop_work
    captured,           \* history: the chunks the input stream has delivered, oldest first
    beats               \* history: the calls of on_beat_cb, oldest first

vars == <<ring_buffer, meta, envelope_detector, result, pushed, consumed,
          old_len, chunk_len, envelopes, samples, start, zero_iter, minmax_iter, yielded,
          beat_detector, band_pass_samples_buffer, log, observed, band_args,
          cfg, keep_recording, stream, pc, captured, beats>>

\* Option<T>: None is the empty sequence, Some(x) the one-element sequence.
None == <<>>
Some(x) == <<x>>
IsSome(o) == Len(o) = 1
Unwrap(o) == o[1]
\* Outcome of an operation that panicked (never equal to None or Some(x)).
Panic == <<"panic", "panic">>
IsPanic(o) == Len(o) = 2
\* the last operation was op (its outcome is Unwrap(r)[op])
IsOp(r, op) == IsSome(r) /\ op \in DOMAIN Unwrap(r)

Abs(x) == IF x < 0 THEN -x ELSE x
\* no BeatDetector and no BandAnalyzer exist
NoBeatDetector ==
    /\ beat_detector = None /\ band_pass_samples_buffer = None /\ log = <<>>
    /\ observed = None /\ band_args = None
\* start_listening is not running
NotListening ==
    /\ cfg = None /\ keep_recording = None /\ stream = None /\ pc = None
    /\ captured = <<>> /\ beats = <<>>
Min(a, b) == IF a < b THEN a ELSE b
\* the last n items of sequence s
LastN(s, n) == SubSeq(s, Len(s) - n + 1, Len(s))

----------------------------------------------------------------------------
(* Bounds of the model. *)

\* capacity BUF_LEN of the ring buffer checked on its own
RingCap == 3
\* number of items pushed between two clears
MaxPushed == 5
\* longest slice handed to extend_from_slice
MaxExtend == 2
\* items pushed into the ring buffer checked on its own
RingItems == {1, 2}
\* capacity N of the AudioHistory checked on its own
HistCap == 3
\* samples consumed by the AudioHistory checked on its own
MaxConsumed == 8
\* longest chunk handed to AudioHistory.update checked on its own
MaxHistChunk == 4
\* sample values of the AudioHistory checked on its own (0.1 and -0.2)
HistSamples == {1000, -2000}
\* sampling rates in Hz (time per sample 1 ms and 0.5 ms)
SamplingRates == {1000, 2000}
\* longest signal handed to the peak primitives checked on their own
MaxSignal == 5
\* sample values of those signals: 0.3, -0.3, 0.0496 (noise that rounds to
\* 0.050), -0.04 (noise) and 0
PeakSamples == {3000, -3000, 496, -400, 0}
\* capacity N of the AudioHistory feeding the envelope detector
DetCap == 7
\* samples consumed by the AudioHistory feeding the envelope detector
MaxTotal == 10
\* chunk lengths handed to it in one update
ChunkLengths == {1, 2}
\* sample values of its chunks: 0, 0.1 and -1.0
DetSamples == {0, 1000, -10000}
\* capacity of the AudioHistory and of the band-pass buffer of the BeatDetector
BeatCap == 50
\* on_new_audio calls on one BeatDetector
MaxCalls == 4
\* sampling rates of the BeatDetector in Hz (time per sample 5 ms and 1 ms)
BeatSamplingRates == {200, 1000}
\* capacity of the buffers of the BeatDetector that is fed kicks
KickCap == 11
\* on_new_audio calls on the BeatDetector that is fed kicks
MaxKickCalls == 12
\* cutoff frequencies handed to BandAnalyzer::new, in Hz
BandFrequencies == {-25, 0, 25, 70, 150}
\* sampling frequencies handed to BandAnalyzer::new, in Hz
BandSamplingFrequencies == {0, 200, 1000}

\* start_listening: most chunks the input stream delivers, the channel counts
\* and the sampling rates of the input configs
MaxListenChunks == 3

\* threads that call block_until_stopped on one CondVarSpinlock
MaxWaiters == 2
ListenChannels == {1, 2, 3}
ListenSamplingRates == {200}

\* the envelope search on its own: longest signal, most changes of the
\* magnitude from one sample to the next, and the magnitudes of its samples
MaxEnvSignal == 11
MaxChanges == 2
EnvMagnitudes == {1000, 2000, 3000}
\* its sampling rate: successive samples are half a millisecond apart, so
\* that some neighbours share a rounded time and others do not
EnvSamplingRates == {2000}

\* all sequences over S of length lo..hi
SeqsOf(S, lo, hi) == UNION {[1..n -> S] : n \in lo..hi}

----------------------------------------------------------------------------
(* util/audio_ring_buffer.rs *)

\* T::default() for f32 and u8
Default == 0

RingBufferNew(n) ==
    [buffer |-> [i \in 0..(n - 1) |-> Default],
     continuous_slice_buffer |-> [i \in 0..(n - 1) |-> Default],
     continuous_slice_buffer_valid |-> TRUE,
     write_index |-> 0,
     len |-> 0]

capacity(rb) == Cardinality(DOMAIN rb.buffer)

push_stale(rb, item) ==
    [rb EXCEPT !.buffer[rb.write_index] = item,
               !.write_index = (rb.write_index + 1) % capacity(rb),
               !.len = IF rb.len < capacity(rb) THEN rb.len + 1 ELSE rb.len]

push(rb, item) ==
    [rb EXCEPT !.buffer[rb.write_index] = item,
               !.continuous_slice_buffer_valid = FALSE,
               !.write_index = (rb.write_index + 1) % capacity(rb),
               !.len = IF rb.len < capacity(rb) THEN rb.len + 1 ELSE rb.len]

\* pushes at most n items of new_data
RECURSIVE push_first_items(_, _, _)
push_first_items(rb, new_data, n) ==
    IF new_data = <<>> \/ n = 0 THEN rb
    ELSE push_first_items(push(rb, Head(new_data)), Tail(new_data), n - 1)

extend_from_slice_first_items(rb, new_data) ==
    push_first_items(rb, new_data, capacity(rb))

RECURSIVE extend_from_slice(_, _)
extend_from_slice(rb, new_data) ==
    IF new_data = <<>> THEN rb
    ELSE extend_from_slice(push(rb, Head(new_data)), Tail(new_data))

clear(rb) ==
    [rb EXCEPT !.write_index = 0,
               !.continuous_slice_buffer_valid = FALSE,
               !.len = 0]

prepare_continuous_slice(rb) ==
    IF rb.continuous_slice_buffer_valid THEN rb
    ELSE LET n == capacity(rb)
             w == rb.write_index
         IN [rb EXCEPT
               !.continuous_slice_buffer =
                   [k \in 0..(n - 1) |->
                       IF k < n - w THEN rb.buffer[w + k]      \* copy step 1/2
                       ELSE rb.buffer[k - (n - w)]],           \* copy step 2/2
               !.continuous_slice_buffer_valid = TRUE]

\* array[from .. from + n) as a sequence
SliceOf(array, from, n) == [k \in 1..n |-> array[from + k - 1]]

continuous_slice_always_prepare(rb) ==
    LET skip_elements == capacity(rb) - rb.len
        prepared == prepare_continuous_slice(rb)
    IN [rb |-> prepared,
        slice |-> SliceOf(prepared.continuous_slice_buffer, skip_elements, rb.len)]

\* continuous_slice(&mut self) -> &[T]: the buffer afterwards and the slice
continuous_slice(rb) ==
    LET skip_elements == capacity(rb) - rb.len
    IN IF rb.write_index = 0
       THEN [rb |-> rb, slice |-> SliceOf(rb.buffer, skip_elements, rb.len)]
       ELSE LET prepared == prepare_continuous_slice(rb)
            IN [rb |-> prepared,
                slice |-> SliceOf(prepared.continuous_slice_buffer,
                                  skip_elements, rb.len)]

----------------------------------------------------------------------------
(* audio_history.rs *)

\* AudioHistoryMeta::new; time_per_sample = 1.0 / sampling_rate, in microseconds
AudioHistoryMetaNew(buffer_capacity, sampling_rate) ==
    [buffer_capacity |-> buffer_capacity,
     sampling_rate |-> sampling_rate,
     time_per_sample |-> 1000000 \div sampling_rate,
     total_relative_time |-> 0,
     amount_new_samples_on_latest_update |-> 0,
     amount_total_consumed_samples |-> 0,
     amount_outfaded_elements |-> 0]

meta_len_unclamped(m) == m.amount_total_consumed_samples

\* AudioHistoryMeta::len
meta_len(m) ==
    IF m.amount_total_consumed_samples < m.buffer_capacity
    THEN m.amount_total_consumed_samples
    ELSE m.buffer_capacity

time_of_sample_off_by_one(m, index) ==
    IF ~(index < m.buffer_capacity) THEN Panic
    ELSE IF ~(m.amount_total_consumed_samples > 0) THEN Panic
    ELSE LET times == meta_len(m) - index
             time == m.total_relative_time - m.time_per_sample * times
         IN IF time > 0 THEN Some(time) ELSE Panic

\* AudioHistoryMeta::time_of_sample: Some(time) when it returns, Panic when an
\* assertion fails.  For len() <= index the usize subtraction len() - index - 1
\* underflows: a build with overflow checks panics there, a build without
\* them wraps to a value near 2^64, the time becomes negative and the
\* assertion time > 0.0 fails; both builds panic.
time_of_sample(m, index) ==
    IF ~(index < m.buffer_capacity) THEN Panic
    ELSE IF ~(m.amount_total_consumed_samples > 0) THEN Panic
    ELSE LET times == meta_len(m) - index - 1
             time == m.total_relative_time - m.time_per_sample * times
         IN IF times < 0 THEN Panic
            ELSE IF time > 0 THEN Some(time) ELSE Panic

\* AudioHistoryMeta::audio_time_in_buffer
audio_time_in_buffer(m) == meta_len(m) * m.time_per_sample

calc_index_after_update_unshifted(m, index) ==
    IF index < m.amount_outfaded_elements THEN None
    ELSE IF index < meta_len(m) THEN Some(index) ELSE Panic

\* AudioHistoryMeta::calc_index_after_update: None, Some(index) or Panic
calc_index_after_update(m, index) ==
    IF index < m.amount_outfaded_elements THEN None
    ELSE LET i == index - m.amount_outfaded_elements
         IN IF i < meta_len(m) THEN Some(i) ELSE Panic

meta_update_stale_time(m, new_samples) ==
    LET old == meta_len(m)
        n == Len(new_samples)
        total == m.amount_total_consumed_samples + n
        cap == m.buffer_capacity
    IN [m EXCEPT
          !.amount_new_samples_on_latest_update = n,
          !.amount_total_consumed_samples = total,
          !.total_relative_time = m.amount_total_consumed_samples * m.time_per_sample,
          !.amount_outfaded_elements =
              IF old + n <= cap THEN 0
              ELSE IF old <= cap /\ old + n > cap THEN old + n - cap
              ELSE n]

meta_update_outfade_chunk(m, new_samples) ==
    LET old == meta_len(m)
        n == Len(new_samples)
        total == m.amount_total_consumed_samples + n
        cap == m.buffer_capacity
    IN [m EXCEPT
          !.amount_new_samples_on_latest_update = n,
          !.amount_total_consumed_samples = total,
          !.total_relative_time = total * m.time_per_sample,
          !.amount_outfaded_elements = IF old + n <= cap THEN 0 ELSE n]

\* AudioHistoryMeta::update
meta_update(m, new_samples) ==
    LET old == meta_len(m)
        n == Len(new_samples)
        total == m.amount_total_consumed_samples + n
        cap == m.buffer_capacity
    IN [m EXCEPT
          !.amount_new_samples_on_latest_update = n,
          !.amount_total_consumed_samples = total,
          !.total_relative_time = total * m.time_per_sample,
          !.amount_outfaded_elements =
              IF old + n <= cap THEN 0
              ELSE IF old <= cap /\ old + n > cap THEN old + n - cap
              ELSE n]

----------------------------------------------------------------------------
(* peak/zero_of_function_iterator.rs *)

\* samples[i] with the 0-based index of the code
At(s, i) == s[i + 1]

\* ZeroOfFunctionIterator::new: Some(iterator), or Panic when the assertion fails
ZeroOfFunctionIteratorNew(s, preferred_start_index) ==
    IF IsSome(preferred_start_index) /\ ~(Unwrap(preferred_start_index) < Len(s))
    THEN Panic
    ELSE Some([index |-> IF IsSome(preferred_start_index)
                         THEN Unwrap(preferred_start_index) ELSE 0])

\* .skip_while(|((_, current), _)| **current == 0.0) over the pairs (i, i + 1)
RECURSIVE skip_while_zero(_, _)
skip_while_zero(s, i) ==
    IF i + 1 < Len(s) /\ At(s, i) = 0 THEN skip_while_zero(s, i + 1) ELSE i

crosses_zero_strict(current, next) ==
    (current > 0 /\ next < 0) \/ (current < 0 /\ next > 0)

\* the predicate of .find(): the next element crosses or touches the zero line
crosses_zero(current, next) ==
    (current > 0 /\ next <= 0) \/ (current < 0 /\ next >= 0)

\* .find(..) over the remaining pairs: index of the first current element
RECURSIVE find_crossing(_, _)
find_crossing(s, i) ==
    IF ~(i + 1 < Len(s)) THEN None
    ELSE IF crosses_zero(At(s, i), At(s, i + 1)) THEN Some(i)
    ELSE find_crossing(s, i + 1)

zero_next_at_crossing(s, it) ==
    LET found == find_crossing(s, skip_while_zero(s, it.index))
    IN IF found = None THEN [it |-> it, item |-> None]
       ELSE [it |-> [index |-> Unwrap(found)],
             item |-> Some(Unwrap(found))]

\* ZeroOfFunctionIterator::next: the iterator afterwards and the item
zero_next(s, it) ==
    LET found == find_crossing(s, skip_while_zero(s, it.index))
    IN IF found = None THEN [it |-> it, item |-> None]
       ELSE [it |-> [index |-> Unwrap(found) + 1],
             item |-> Some(Unwrap(found) + 1)]

----------------------------------------------------------------------------
(* peak/local_min_max_iterator.rs *)

LocalMinMaxIteratorNew_from_start(s, preferred_start_index) ==
    LET zero_new == ZeroOfFunctionIteratorNew(s, preferred_start_index)
        start_index == IF IsSome(preferred_start_index)
                       THEN Unwrap(preferred_start_index) ELSE 0
    IN IF IsPanic(zero_new) THEN Panic
       ELSE IF ~(start_index < Len(s)) THEN Panic
       ELSE Some([next_start_index |-> start_index,
                  zero_of_function_iterator |-> Unwrap(zero_new)])

\* LocalMinMaxIterator::new: Some(iterator), or Panic when an assertion or the
\* access samples[start_index] fails
LocalMinMaxIteratorNew(s, preferred_start_index) ==
    LET zero_new == ZeroOfFunctionIteratorNew(s, preferred_start_index)
        start_index == IF IsSome(preferred_start_index)
                       THEN Unwrap(preferred_start_index) ELSE 0
    IN IF IsPanic(zero_new) THEN Panic
       ELSE IF ~(start_index < Len(s)) THEN Panic
       ELSE IF At(s, start_index) = 0
       THEN Some([next_start_index |-> start_index,
                  zero_of_function_iterator |-> Unwrap(zero_new)])
       ELSE LET z == zero_next(s, Unwrap(zero_new))
            IN Some([next_start_index |->
                         IF IsSome(z.item) THEN Unwrap(z.item) ELSE Len(s),
                     zero_of_function_iterator |-> z.it])

reduce_abs_max_first(l, r) == IF Abs(l.value) >= Abs(r.value) THEN l ELSE r

\* the closure of .reduce(): keeps the right element unless the left is bigger
reduce_abs_max(l, r) == IF Abs(l.value) > Abs(r.value) THEN l ELSE r

\* .reduce(..) over the samples at indices i .. end - 1, acc holding the
\* reduction of the elements before i
RECURSIVE reduce_from(_, _, _, _)
reduce_from(s, i, end, acc) ==
    IF ~(i < end) \/ ~(i < Len(s)) THEN acc
    ELSE reduce_from(s, i + 1, end,
                     reduce_abs_max(acc, [index |-> i, value |-> At(s, i)]))

\* LocalMinMaxIterator::next: the iterator afterwards and the item, which is
\* None, Some(LocalMinMax) or Panic (the debug assertion)
minmax_next(s, it) ==
    LET start_index == it.next_start_index
        z == zero_next(s, it.zero_of_function_iterator)
    IN IF z.item = None THEN [it |-> it, item |-> None]
       ELSE LET next_zero_of_function_index == Unwrap(z.item)
                advanced == [next_start_index |-> next_zero_of_function_index,
                             zero_of_function_iterator |-> z.it]
            IN IF ~(start_index < next_zero_of_function_index)
               THEN [it |-> advanced, item |-> Panic]
               ELSE [it |-> advanced,
                     item |-> Some(reduce_from(s, start_index + 1,
                                       next_zero_of_function_index,
                                       [index |-> start_index,
                                        value |-> At(s, start_index)]))]

----------------------------------------------------------------------------
(* peak/mod.rs and peak/peak_detector.rs *)

\* PeakDetector::DEFAULT_STACK_VEC_CAPACITY
DEFAULT_STACK_VEC_CAPACITY == 512

\* PeakDetector::MINIMUM_PEAK = 0.05, in 1/10000
MINIMUM_PEAK == 500

\* libm::roundf(x * 1000.0) / 1000.0 for x = num / (1000 * den): the nearest
\* multiple of 1/1000, halves away from zero, as a count of 1/1000
round3(num, den) ==
    IF num >= 0 THEN (2 * num + den) \div (2 * den)
    ELSE -((2 * (-num) + den) \div (2 * den))

\* InternalPeak::new / Peak::new: Some(peak), or Panic when time_of_sample fails
PeakNew(sample_index, value, peak_number, audio_meta) ==
    LET time == time_of_sample(audio_meta, sample_index)
    IN IF IsPanic(time) THEN Panic
       ELSE Some([relative_time |-> round3(Unwrap(time), 1000),
                  sample_index |-> sample_index,
                  value |-> round3(value, 10),
                  peak_number |-> peak_number])

\* Peak::abs_value, in 1/1000
abs_value(peak) == Abs(peak.value)

\* all items of a LocalMinMaxIterator, in order (Panic items included)
RECURSIVE drain(_, _)
drain(s, it) ==
    LET n == minmax_next(s, it)
    IN IF n.item = None THEN <<>>
       ELSE IF IsPanic(n.item) THEN <<n.item>>
       ELSE <<n.item>> \o drain(s, n.it)

is_real_peak_no_floor(local_min_max) == local_min_max.value # 0

\* the predicate of .filter(): the noise floor
is_real_peak(local_min_max) == Abs(local_min_max.value) >= MINIMUM_PEAK

detect_peaks_numbered_before_filter(s, audio_meta, preferred_start_index) ==
    LET it == LocalMinMaxIteratorNew(s, preferred_start_index)
    IN IF IsPanic(it) THEN Panic
       ELSE LET items == drain(s, Unwrap(it))
                numbered == [k \in 1..Len(items) |->
                               IF IsPanic(items[k]) THEN Panic
                               ELSE PeakNew(Unwrap(items[k]).index,
                                            Unwrap(items[k]).value, k - 1, audio_meta)]
                peaks == SelectSeq(numbered,
                             LAMBDA o : IsPanic(o) \/ Abs(Unwrap(o).value) * 10 >= MINIMUM_PEAK)
            IN IF \E k \in 1..Len(peaks) : IsPanic(peaks[k]) THEN Panic
               ELSE Some([k \in 1..Len(peaks) |-> Unwrap(peaks[k])])

\* PeakDetector::detect_peaks: Some(sequence of peaks), or Panic
detect_peaks(s, audio_meta, preferred_start_index) ==
    LET it == LocalMinMaxIteratorNew(s, preferred_start_index)
    IN IF IsPanic(it) THEN Panic
       ELSE LET items == drain(s, Unwrap(it))
                extrema == SelectSeq(items,
                               LAMBDA o : IsSome(o) /\ is_real_peak(Unwrap(o)))
                peaks == [k \in 1..Len(extrema) |->
                             PeakNew(Unwrap(extrema[k]).index,
                                     Unwrap(extrema[k]).value, k - 1, audio_meta)]
            IN IF \E k \in 1..Len(items) : IsPanic(items[k]) THEN Panic
               ELSE IF \E k \in 1..Len(peaks) : IsPanic(peaks[k]) THEN Panic
               ELSE IF Len(peaks) > DEFAULT_STACK_VEC_CAPACITY THEN Panic
               ELSE Some([k \in 1..Len(peaks) |-> Unwrap(peaks[k])])

----------------------------------------------------------------------------
(* The peak primitives on their own: a signal and a start index are chosen,
   then one of the primitives is run on them. *)

PeaksUnused == <<ring_buffer, envelope_detector, pushed, consumed, old_len,
                 chunk_len, envelopes,
                 beat_detector, band_pass_samples_buffer, log, observed, band_args,
    cfg, keep_recording, stream, pc, captured, beats>>

\* the signal sits in an AudioHistory that was updated once with it, as in
\* the tests of peak_detector.rs; both iterators are constructed on it
InitPeaks ==
    /\ samples \in SeqsOf(PeakSamples, 0, MaxSignal)
    /\ start \in {None} \cup {Some(i) : i \in 0..MaxSignal}
    /\ IsSome(start) => Unwrap(start) <= Len(samples)
    /\ \E sampling_rate \in SamplingRates :
           meta = meta_update(AudioHistoryMetaNew(MaxSignal + 1, sampling_rate), samples)
    /\ zero_iter = ZeroOfFunctionIteratorNew(samples, start)
    /\ minmax_iter = LocalMinMaxIteratorNew(samples, start)
    /\ yielded = <<>>
    /\ result = None
    /\ ring_buffer = None /\ envelope_detector = None /\ pushed = <<>>
    /\ consumed = 0 /\ old_len = 0 /\ chunk_len = 0 /\ envelopes = <<>>
    /\ NoBeatDetector
    /\ NotListening

\* ZeroOfFunctionIterator::next on the iterator under test
ZeroNext ==
    /\ IsSome(zero_iter)
    /\ result = None \/ IsOp(result, "zero_next")
    /\ LET n == zero_next(samples, Unwrap(zero_iter))
       IN /\ zero_iter' = Some(n.it)
          /\ result' = Some([zero_next |-> n.item])
          /\ yielded' = IF IsSome(n.item) THEN Append(yielded, Unwrap(n.item))
                        ELSE yielded
    /\ UNCHANGED <<samples, start, meta, minmax_iter>>
    /\ UNCHANGED PeaksUnused

\* LocalMinMaxIterator::next on the iterator under test
MinMaxNext ==
    /\ IsSome(minmax_iter)
    /\ result = None \/ IsOp(result, "minmax_next")
    /\ LET n == minmax_next(samples, Unwrap(minmax_iter))
       IN /\ minmax_iter' = Some(n.it)
          /\ result' = Some([minmax_next |-> n.item])
          /\ yielded' = IF IsSome(n.item) THEN Append(yielded, Unwrap(n.item))
                        ELSE yielded
    /\ UNCHANGED <<samples, start, meta, zero_iter>>
    /\ UNCHANGED PeaksUnused

\* PeakDetector::detect_peaks on the signal
DetectPeaks ==
    /\ result = None
    /\ result' = Some([detect_peaks |-> detect_peaks(samples, meta, start)])
    /\ UNCHANGED <<samples, start, meta, zero_iter, minmax_iter, yielded>>
    /\ UNCHANGED PeaksUnused

NextPeaks == ZeroNext \/ MinMaxNext \/ DetectPeaks

SpecPeaks == InitPeaks /\ [][NextPeaks]_vars

----------------------------------------------------------------------------
(* envelope_detector.rs *)

\* EnvelopeDetector::PEAK_IS_BEAT_CRITERIA = 2.1, in 1/10
PEAK_IS_BEAT_CRITERIA == 21

\* MAX_PEAK_DISTANCE_TO_BEGIN in find_envelope_begin
MAX_PEAK_DISTANCE_TO_BEGIN == 7

\* EnvelopeDetector::new
EnvelopeDetectorNew == [previous_envelope_end_peak_index |-> None]

\* peak.abs_value() * PEAK_IS_BEAT_CRITERIA < max_peak.abs_value()
peak_small_enough(peak, max_peak) ==
    abs_value(peak) * PEAK_IS_BEAT_CRITERIA < abs_value(max_peak) * 10

\* the loop of find_max_abs from the k-th peak on (1-based), acc the maximum so far
RECURSIVE find_max_abs_from(_, _, _)
find_max_abs_from(peaks, k, maybe_max_peak) ==
    IF k > Len(peaks) THEN maybe_max_peak
    ELSE LET first == IF maybe_max_peak = None THEN peaks[k]
                      ELSE Unwrap(maybe_max_peak)
         IN find_max_abs_from(peaks, k + 1,
                IF abs_value(first) < abs_value(peaks[k])
                THEN Some(peaks[k]) ELSE Some(first))

\* the loop of find_max_abs replacing the maximum also by a peak equal to it
RECURSIVE find_max_abs_latest_from(_, _, _)
find_max_abs_latest_from(peaks, k, maybe_max_peak) ==
    IF k > Len(peaks) THEN maybe_max_peak
    ELSE LET first == IF maybe_max_peak = None THEN peaks[k]
                      ELSE Unwrap(maybe_max_peak)
         IN find_max_abs_latest_from(peaks, k + 1,
                IF abs_value(first) <= abs_value(peaks[k])
                THEN Some(peaks[k]) ELSE Some(first))

find_max_abs_latest(peaks) == find_max_abs_latest_from(peaks, 1, None)

\* EnvelopeDetector::find_max_abs
find_max_abs(peaks) == find_max_abs_from(peaks, 1, None)

\* .find(..) of find_envelope_begin over the reversed peaks: the peak with
\* number n, then n - 1, ..., with `left` peaks still allowed by take()
RECURSIVE find_begin_from(_, _, _, _)
find_begin_from(peaks, max_peak, n, left) ==
    IF n < 0 \/ left = 0 THEN None
    ELSE IF peak_small_enough(peaks[n + 1], max_peak) THEN Some(peaks[n + 1])
    ELSE find_begin_from(peaks, max_peak, n - 1, left - 1)

find_envelope_begin_from_max(peaks, max_peak) ==
    find_begin_from(peaks, max_peak, max_peak.peak_number,
                    MAX_PEAK_DISTANCE_TO_BEGIN)

\* EnvelopeDetector::find_envelope_begin: rev() and skip(len - peak_number)
\* leave the peaks with numbers peak_number - 1 down to 0
find_envelope_begin(peaks, max_peak) ==
    find_begin_from(peaks, max_peak, max_peak.peak_number - 1,
                    MAX_PEAK_DISTANCE_TO_BEGIN)

peak_ge_by_value(a, b) == abs_value(a) >= abs_value(b)

\* PartialOrd / PartialEq for Peak: peaks compare by relative_time only
peak_ge(a, b) == a.relative_time >= b.relative_time
peak_ne(a, b) == a.relative_time # b.relative_time
peak_lt(a, b) == a.relative_time < b.relative_time
peak_gt(a, b) == a.relative_time > b.relative_time

peak_eq_all_fields(a, b) == a = b

peak_eq(a, b) == a.relative_time = b.relative_time

\* first skip_while of find_envelope_end over the pairs (k, k + 1), 1-based
RECURSIVE skip_not_small_enough(_, _, _)
skip_not_small_enough(peaks, max_peak, k) ==
    IF k + 1 <= Len(peaks) /\ ~peak_small_enough(peaks[k], max_peak)
    THEN skip_not_small_enough(peaks, max_peak, k + 1) ELSE k

\* second skip_while of find_envelope_end
RECURSIVE skip_not_decayed(_, _)
skip_not_decayed(peaks, k) ==
    IF /\ k + 1 <= Len(peaks)
       /\ peak_ge(peaks[k], peaks[k + 1])
       /\ peak_ne(peaks[k + 1], peaks[Len(peaks)])
    THEN skip_not_decayed(peaks, k + 1) ELSE k

find_envelope_end_unpaired(peaks, max_peak) ==
    LET peaks_to_skip == max_peak.peak_number + 1
        k == skip_not_decayed(peaks,
                 skip_not_small_enough(peaks, max_peak, peaks_to_skip + 1))
    IN IF k <= Len(peaks) THEN Some(peaks[k]) ELSE None

\* EnvelopeDetector::find_envelope_end
find_envelope_end(peaks, max_peak) ==
    LET peaks_to_skip == max_peak.peak_number + 1
        k == skip_not_decayed(peaks,
                 skip_not_small_enough(peaks, max_peak, peaks_to_skip + 1))
    IN IF k + 1 <= Len(peaks) THEN Some(peaks[k]) ELSE None

\* Envelope::new: Some(envelope), or Panic when an ordering assertion fails
EnvelopeNew(begin, end, highest) ==
    IF ~peak_lt(begin, highest) \/ ~peak_lt(highest, end) THEN Panic
    ELSE Some([begin |-> begin,
               end |-> end,
               highest |-> highest,
               intensity |-> abs_value(highest),
               clarity_begin |-> round3(1000 * abs_value(highest), abs_value(begin)),
               clarity_end |-> round3(1000 * abs_value(highest), abs_value(end))])

envelope_of_peaks_forgetting(translated, peaks, max_peak) ==
    LET begin == find_envelope_begin(peaks, Unwrap(max_peak))
        end == find_envelope_end(peaks, Unwrap(max_peak))
        envelope == EnvelopeNew(Unwrap(begin), Unwrap(end), Unwrap(max_peak))
    IN IF max_peak = None \/ begin = None \/ end = None
       THEN [detector |-> EnvelopeDetectorNew, ret |-> None]
       ELSE IF IsPanic(envelope) THEN [detector |-> translated, ret |-> Panic]
       ELSE [detector |-> [previous_envelope_end_peak_index |->
                               Some(Unwrap(envelope).end.sample_index)],
             ret |-> envelope]

\* steps 1) to 3) of detect_envelope and Envelope::new on the detected peaks:
\* the detector afterwards and what is returned
envelope_of_peaks(translated, peaks, max_peak) ==
    LET begin == find_envelope_begin(peaks, Unwrap(max_peak))
        end == find_envelope_end(peaks, Unwrap(max_peak))
        envelope == EnvelopeNew(Unwrap(begin), Unwrap(end), Unwrap(max_peak))
    IN IF max_peak = None \/ begin = None \/ end = None
       THEN [detector |-> translated, ret |-> None]
       ELSE IF IsPanic(envelope) THEN [detector |-> translated, ret |-> Panic]
       ELSE [detector |-> [previous_envelope_end_peak_index |->
                               Some(Unwrap(envelope).end.sample_index)],
             ret |-> envelope]

\* detect_envelope from the result of detect_peaks on
envelope_of_peaks_result(translated, peaks_result) ==
    IF IsPanic(peaks_result) THEN [detector |-> translated, ret |-> Panic]
    ELSE envelope_of_peaks(translated, Unwrap(peaks_result),
                           find_max_abs(Unwrap(peaks_result)))

detect_envelope_from_start(detector, audio_meta, s) ==
    envelope_of_peaks_result([previous_envelope_end_peak_index |-> None],
                             detect_peaks(s, audio_meta, None))

\* EnvelopeDetector::detect_envelope: the detector afterwards and what is
\* returned: None, Some(envelope), or Panic when an assertion fails
detect_envelope(detector, audio_meta, s) ==
    LET previous == detector.previous_envelope_end_peak_index
        start_index == IF IsSome(previous)
                       THEN calc_index_after_update(audio_meta, Unwrap(previous))
                       ELSE None
    IN IF IsPanic(start_index) THEN [detector |-> detector, ret |-> Panic]
       ELSE envelope_of_peaks_result(
                [previous_envelope_end_peak_index |-> start_index],
                detect_peaks(s, audio_meta, start_index))

----------------------------------------------------------------------------
(* The envelope detector on a stream: each chunk updates the AudioHistory and
   is followed by one detect_envelope call on the whole history, until a call
   panics. *)

DetUnused == <<pushed, samples, start, zero_iter, minmax_iter, yielded,
                 beat_detector, band_pass_samples_buffer, log, observed, band_args,
    cfg, keep_recording, stream, pc, captured, beats>>

\* AudioHistory::new with the given capacity and EnvelopeDetector::new
InitDetector(buffer_capacity) ==
    /\ \E sampling_rate \in SamplingRates :
           meta = AudioHistoryMetaNew(buffer_capacity, sampling_rate)
    /\ ring_buffer = RingBufferNew(buffer_capacity)
    /\ envelope_detector = EnvelopeDetectorNew
    /\ result = None
    /\ envelopes = <<>>
    /\ consumed = 0 /\ old_len = 0 /\ chunk_len = 0
    /\ pushed = <<>> /\ samples = <<>> /\ start = None
    /\ zero_iter = None /\ minmax_iter = None /\ yielded = <<>>
    /\ NoBeatDetector
    /\ NotListening

\* stream position (0-based) of the sample at index i of the current view
StreamPos(m, i) == m.amount_total_consumed_samples - meta_len(m) + i

\* audio_history.update(chunk); envelope_detector.detect_envelope(&meta, samples)
\* for a stream of at most max_total samples
UpdateAndDetectUpTo(max_total) ==
    \E chunk \in UNION {[1..n -> DetSamples] : n \in ChunkLengths} :
        /\ ~(IsOp(result, "detect_envelope")
               /\ IsPanic(Unwrap(result).detect_envelope))
        /\ consumed + Len(chunk) <= max_total
        /\ \E updated \in {meta_update(meta, chunk)},
              latest_audio \in {continuous_slice(extend_from_slice(ring_buffer, chunk))} :
            \E d \in {detect_envelope(envelope_detector, updated, latest_audio.slice)} :
              /\ ring_buffer' = latest_audio.rb
              /\ meta' = updated
              /\ envelope_detector' = d.detector
              /\ result' = Some([detect_envelope |-> d.ret])
              /\ envelopes' =
                     IF IsSome(d.ret)
                     THEN Append(envelopes,
                              [begin_pos |-> StreamPos(updated, Unwrap(d.ret).begin.sample_index),
                               end_pos |-> StreamPos(updated, Unwrap(d.ret).end.sample_index),
                               begin_time |-> Unwrap(d.ret).begin.relative_time,
                               end_time |-> Unwrap(d.ret).end.relative_time])
                     ELSE envelopes
        /\ consumed' = consumed + Len(chunk)
        /\ old_len' = meta_len(meta)
        /\ chunk_len' = Len(chunk)
        /\ UNCHANGED DetUnused

\* a long stream through a history of DetCap samples
Init == InitDetector(DetCap)

UpdateAndDetect == UpdateAndDetectUpTo(MaxTotal)

Next == UpdateAndDetect

Spec == Init /\ [][Next]_vars

\* the first window of a stream: a history one sample wider, filled once
FirstWindowCap == DetCap + 1

InitFirstWindow == InitDetector(FirstWindowCap)

FillFirstWindow == UpdateAndDetectUpTo(FirstWindowCap)

NextFirstWindow == FillFirstWindow

SpecFirstWindow == InitFirstWindow /\ [][NextFirstWindow]_vars

\* a history one sample narrower, so that the end of an envelope leaves the
\* window before the stream is over
SmallWindowCap == DetCap - 1

InitSmallWindow == InitDetector(SmallWindowCap)

SlideSmallWindow == UpdateAndDetectUpTo(MaxTotal)

NextSmallWindow == SlideSmallWindow

SpecSmallWindow == InitSmallWindow /\ [][NextSmallWindow]_vars

----------------------------------------------------------------------------
(* The envelope search on its own: a history receives a signal sample by
   sample, each sample of the opposite sign of the one before, and one of the
   three searches of detect_envelope, or detect_envelope itself with a new
   detector, is run on the peaks of what has arrived. *)

EnvUnused == <<pushed, consumed, old_len, chunk_len, envelopes,
               start, zero_iter, minmax_iter, yielded,
               beat_detector, band_pass_samples_buffer, log, observed, band_args,
    cfg, keep_recording, stream, pc, captured, beats>>

\* number of places where the magnitude changes from one sample to the next
Changes(s) == Cardinality({k \in 1..(Len(s) - 1) : Abs(s[k]) # Abs(s[k + 1])})

\* AudioHistory::new, EnvelopeDetector::new
InitEnvelope ==
    /\ \E sampling_rate \in EnvSamplingRates :
           meta = AudioHistoryMetaNew(MaxEnvSignal, sampling_rate)
    /\ ring_buffer = RingBufferNew(MaxEnvSignal)
    /\ samples = <<>>
    /\ envelope_detector = EnvelopeDetectorNew
    /\ result = None
    /\ pushed = <<>>
    /\ consumed = 0 /\ old_len = 0 /\ chunk_len = 0 /\ envelopes = <<>>
    /\ start = None /\ zero_iter = None /\ minmax_iter = None /\ yielded = <<>>
    /\ NoBeatDetector
    /\ NotListening

\* audio_history.update(&[sample]); samples = audio_history.latest_audio()
AppendSample ==
    \E magnitude \in EnvMagnitudes :
        LET sample == IF Len(samples) % 2 = 0 THEN magnitude ELSE -magnitude
        IN /\ result = None
           /\ Len(samples) < MaxEnvSignal
           /\ Changes(Append(samples, sample)) <= MaxChanges
           /\ \E latest_audio \in
                     {continuous_slice(extend_from_slice(ring_buffer, <<sample>>))} :
                  /\ ring_buffer' = latest_audio.rb
                  /\ samples' = latest_audio.slice
           /\ meta' = meta_update(meta, <<sample>>)
           /\ UNCHANGED <<result, envelope_detector>>
           /\ UNCHANGED EnvUnused

\* PeakDetector::detect_peaks on everything that has arrived: whether it
\* returns, and what
PeaksExtracted == IsSome(detect_peaks(samples, meta, None))
ExtractedPeaks == Unwrap(detect_peaks(samples, meta, None))

\* step 1 of detect_envelope: find_max_abs(&peaks)
FindMaxAbs ==
    /\ result = None
    /\ PeaksExtracted
    /\ result' = Some([find_max_abs |-> find_max_abs(ExtractedPeaks)])
    /\ UNCHANGED <<ring_buffer, samples, meta, envelope_detector>>
    /\ UNCHANGED EnvUnused

\* step 2 of detect_envelope: find_envelope_begin(&peaks, &max_peak)
FindEnvelopeBegin ==
    /\ result = None
    /\ PeaksExtracted
    /\ \E peaks \in {ExtractedPeaks} :
           /\ IsSome(find_max_abs(peaks))
           /\ result' = Some([find_envelope_begin |->
                                 find_envelope_begin(peaks, Unwrap(find_max_abs(peaks)))])
    /\ UNCHANGED <<ring_buffer, samples, meta, envelope_detector>>
    /\ UNCHANGED EnvUnused

\* step 3 of detect_envelope: find_envelope_end(&peaks, &max_peak)
FindEnvelopeEnd ==
    /\ result = None
    /\ PeaksExtracted
    /\ \E peaks \in {ExtractedPeaks} :
           /\ IsSome(find_max_abs(peaks))
           /\ result' = Some([find_envelope_end |->
                                 find_envelope_end(peaks, Unwrap(find_max_abs(peaks)))])
    /\ UNCHANGED <<ring_buffer, samples, meta, envelope_detector>>
    /\ UNCHANGED EnvUnused

\* detector.detect_envelope(&meta, samples) on the detector just constructed
DetectEnvelope ==
    /\ result = None
    /\ \E d \in {detect_envelope(envelope_detector, meta, samples)} :
           /\ envelope_detector' = d.detector
           /\ result' = Some([detect_envelope |-> d.ret])
    /\ UNCHANGED <<ring_buffer, samples, meta>>
    /\ UNCHANGED EnvUnused

NextEnvelope ==
    AppendSample \/ FindMaxAbs \/ FindEnvelopeBegin \/ FindEnvelopeEnd
        \/ DetectEnvelope

SpecEnvelope == InitEnvelope /\ [][NextEnvelope]_vars

----------------------------------------------------------------------------
(* The AudioHistory on its own: updates with chunks of any length, and its
   queries. *)

HistUnused == <<envelope_detector, envelopes, samples, start, zero_iter,
                minmax_iter, yielded,
                 beat_detector, band_pass_samples_buffer, log, observed, band_args,
    cfg, keep_recording, stream, pc, captured, beats>>

\* AudioHistory::new
InitHistory ==
    /\ \E sampling_rate \in SamplingRates :
           meta = AudioHistoryMetaNew(HistCap, sampling_rate)
    /\ ring_buffer = RingBufferNew(HistCap)
    /\ result = None
    /\ pushed = <<>> /\ consumed = 0 /\ old_len = 0 /\ chunk_len = 0
    /\ envelope_detector = None /\ envelopes = <<>> /\ samples = <<>>
    /\ start = None /\ zero_iter = None /\ minmax_iter = None /\ yielded = <<>>
    /\ NoBeatDetector
    /\ NotListening

\* AudioHistory::update
Update ==
    \E chunk \in SeqsOf(HistSamples, 0, MaxHistChunk) :
        /\ consumed + Len(chunk) <= MaxConsumed
        /\ ring_buffer' = extend_from_slice(ring_buffer, chunk)
        /\ meta' = meta_update(meta, chunk)
        /\ pushed' = pushed \o chunk
        /\ consumed' = consumed + Len(chunk)
        /\ old_len' = meta_len(meta)
        /\ chunk_len' = Len(chunk)
        /\ result' = None
        /\ UNCHANGED HistUnused

\* AudioHistory::latest_audio
LatestAudio ==
    LET r == continuous_slice(ring_buffer)
    IN /\ ring_buffer' = r.rb
       /\ result' = Some([slice |-> r.slice])
       /\ UNCHANGED <<meta, pushed, consumed, old_len, chunk_len>>
       /\ UNCHANGED HistUnused

\* AudioHistory::time_of_sample, called with any index
TimeOfSample ==
    \E index \in 0..(HistCap + 1) :
        /\ result' = Some([time_of_sample |-> time_of_sample(meta, index),
                           index |-> index])
        /\ UNCHANGED <<ring_buffer, meta, pushed, consumed, old_len, chunk_len>>
        /\ UNCHANGED HistUnused

\* AudioHistory::calc_index_after_update, called with any index
CalcIndexAfterUpdate ==
    \E index \in 0..(HistCap + 1) :
        /\ result' = Some([calc_index_after_update |->
                               calc_index_after_update(meta, index),
                           index |-> index])
        /\ UNCHANGED <<ring_buffer, meta, pushed, consumed, old_len, chunk_len>>
        /\ UNCHANGED HistUnused

NextHistory == Update \/ LatestAudio \/ TimeOfSample \/ CalcIndexAfterUpdate

SpecHistory == InitHistory /\ [][NextHistory]_vars

----------------------------------------------------------------------------
(* The ring buffer on its own: any interleaving of its four operations. *)

InitRing ==
    /\ ring_buffer = RingBufferNew(RingCap)
    /\ pushed = <<>>
    /\ result = None
    /\ meta = None /\ envelope_detector = None /\ consumed = 0 /\ old_len = 0
    /\ chunk_len = 0 /\ envelopes = <<>> /\ samples = <<>> /\ start = None
    /\ zero_iter = None /\ minmax_iter = None /\ yielded = <<>>
    /\ NoBeatDetector
    /\ NotListening

RingUnused == <<meta, envelope_detector, consumed, old_len, chunk_len, envelopes, samples,
                start, zero_iter, minmax_iter, yielded,
                 beat_detector, band_pass_samples_buffer, log, observed, band_args,
    cfg, keep_recording, stream, pc, captured, beats>>

Push ==
    \E item \in RingItems :
        /\ Len(pushed) < MaxPushed
        /\ ring_buffer' = push(ring_buffer, item)
        /\ pushed' = Append(pushed, item)
        /\ result' = None
        /\ UNCHANGED RingUnused

ExtendFromSlice ==
    \E new_data \in SeqsOf(RingItems, 0, MaxExtend) :
        /\ Len(pushed) + Len(new_data) <= MaxPushed
        /\ ring_buffer' = extend_from_slice(ring_buffer, new_data)
        /\ pushed' = pushed \o new_data
        /\ result' = None
        /\ UNCHANGED RingUnused

Clear ==
    /\ ring_buffer' = clear(ring_buffer)
    /\ pushed' = <<>>
    /\ result' = None
    /\ UNCHANGED RingUnused

ContinuousSlice ==
    LET r == continuous_slice(ring_buffer)
    IN /\ ring_buffer' = r.rb
       /\ result' = Some([slice |-> r.slice])
       /\ UNCHANGED pushed
       /\ UNCHANGED RingUnused

NextRing == Push \/ ExtendFromSlice \/ Clear \/ ContinuousSlice

SpecRing == InitRing /\ [][NextRing]_vars

----------------------------------------------------------------------------
(* band_analyzer.rs.  A frequency is a whole number of Hz. *)

\* f32::is_normal on a frequency: neither zero nor (not representable here)
\* subnormal, infinite or NaN
is_normal(x) == x # 0

BandAnalyzerNew_asserting(lower_frequency, higher_frequency, sampling_frequency, debug_assertions) ==
    IF \/ ~is_normal(lower_frequency)
       \/ ~is_normal(higher_frequency)
       \/ ~is_normal(sampling_frequency)
       \/ ~(2 * higher_frequency <= sampling_frequency)
       \/ ~(lower_frequency < higher_frequency)
    THEN Panic
    ELSE Some([lower_frequency |-> lower_frequency,
               higher_frequency |-> higher_frequency,
               sampling_frequency |-> sampling_frequency,
               envelope_detector |-> EnvelopeDetectorNew])

\* BandAnalyzer::new: Some(analyzer), or Panic when a debug_assert! fails in a
\* build that has debug assertions
BandAnalyzerNew(lower_frequency, higher_frequency, sampling_frequency, debug_assertions) ==
    IF debug_assertions
       /\ (\/ ~is_normal(lower_frequency)
           \/ ~is_normal(higher_frequency)
           \/ ~is_normal(sampling_frequency)
           \/ ~(2 * higher_frequency <= sampling_frequency)
           \/ ~(lower_frequency < higher_frequency))
    THEN Panic
    ELSE Some([lower_frequency |-> lower_frequency,
               higher_frequency |-> higher_frequency,
               sampling_frequency |-> sampling_frequency,
               envelope_detector |-> EnvelopeDetectorNew])

\* BandAnalyzer::new_low
new_low(sampling_rate, debug_assertions) ==
    BandAnalyzerNew(25, 70, sampling_rate, debug_assertions)

\* biquad::Coefficients::from_params(Type::HighPass, fs, lower_frequency,
\* Q_BUTTERWORTH_F32): b0, b1, b2, a1, a2 after the division by a0, as counts
\* of 1/den, for the cutoff 25 Hz at 200 Hz and at 1000 Hz
high_pass_coefficients(analyzer) ==
    IF analyzer.sampling_frequency = 200
    THEN [b0 |-> 569, b1 |-> -1138, b2 |-> 569, a1 |-> -943, a2 |-> 333,
          den |-> 1000]
    ELSE [b0 |-> 895, b1 |-> -1790, b2 |-> 895, a1 |-> -1779, a2 |-> 801,
          den |-> 1000]

\* biquad::Coefficients::from_params(Type::LowPass, fs, higher_frequency,
\* Q_BUTTERWORTH_F32), likewise, for the cutoff 70 Hz
low_pass_coefficients(analyzer) ==
    IF analyzer.sampling_frequency = 200
    THEN [b0 |-> 505, b1 |-> 1010, b2 |-> 505, a1 |-> 748, a2 |-> 272,
          den |-> 1000]
    ELSE [b0 |-> 37, b1 |-> 73, b2 |-> 37, a1 |-> -1391, a2 |-> 537,
          den |-> 1000]

DirectForm1New_charged(coefficients) ==
    [coefficients |-> coefficients, x1 |-> 0, x2 |-> 0, y1 |-> 10000, y2 |-> 0]

\* biquad::DirectForm1::new: the delay memory starts at zero
DirectForm1New(coefficients) ==
    [coefficients |-> coefficients, x1 |-> 0, x2 |-> 0, y1 |-> 0, y2 |-> 0]

\* the output sample of biquad::DirectForm1::run, rounded to a count of 1/10000
run_out(filter, input) ==
    round3(filter.coefficients.b0 * input
             + filter.coefficients.b1 * filter.x1
             + filter.coefficients.b2 * filter.x2
             - filter.coefficients.a1 * filter.y1
             - filter.coefficients.a2 * filter.y2,
           filter.coefficients.den)

\* the filter after biquad::DirectForm1::run has returned out for input
run_filter(filter, input, out) ==
    [filter EXCEPT !.x2 = filter.x1, !.x1 = input,
                   !.y2 = filter.y1, !.y1 = out]

\* the loop of apply_band_filter from the k-th sample on (1-based): the
\* band-passed samples it pushes, in order
RECURSIVE band_passed_samples(_, _, _, _)
band_passed_from(s, k, high_pass, low_pass, high_passed_sample, band_passed_sample) ==
    <<band_passed_sample>>
        \o band_passed_samples(s, k + 1,
               run_filter(high_pass, s[k], high_passed_sample),
               run_filter(low_pass, high_passed_sample, band_passed_sample))

\* one pass of the loop once the high pass has run
band_passed_low(s, k, high_pass, low_pass, high_passed_sample) ==
    band_passed_from(s, k, high_pass, low_pass, high_passed_sample,
                     run_out(low_pass, high_passed_sample))

band_passed_samples(s, k, high_pass, low_pass) ==
    IF k > Len(s) THEN <<>>
    ELSE band_passed_low(s, k, high_pass, low_pass, run_out(high_pass, s[k]))

apply_band_filter_any_length(analyzer, s, band_pass_buffer) ==
    IF ~(Len(s) <= capacity(band_pass_buffer)) THEN Panic
    ELSE Some(extend_from_slice(clear(band_pass_buffer),
             band_passed_samples(s, 1,
                 DirectForm1New(high_pass_coefficients(analyzer)),
                 DirectForm1New(low_pass_coefficients(analyzer)))))

\* BandAnalyzer::apply_band_filter: Some(buffer afterwards), or Panic when an
\* assertion fails
apply_band_filter(analyzer, s, band_pass_buffer) ==
    IF ~(Len(s) <= capacity(band_pass_buffer)) THEN Panic
    ELSE IF ~(Len(s) > 10) THEN Panic
    ELSE Some(extend_from_slice(clear(band_pass_buffer),
             band_passed_samples(s, 1,
                 DirectForm1New(high_pass_coefficients(analyzer)),
                 DirectForm1New(low_pass_coefficients(analyzer)))))

\* the end of BandAnalyzer::detect_envelope: what the envelope detector returned
\* for the slice
band_envelope_result(analyzer, sliced, detected) ==
    [analyzer |-> [analyzer EXCEPT !.envelope_detector = detected.detector],
     buffer |-> sliced.rb,
     slice |-> Some(sliced.slice),
     ret |-> detected.ret]

\* BandAnalyzer::detect_envelope from the continuous slice on
band_envelope_of_slice(analyzer, sliced, audio_meta) ==
    band_envelope_result(analyzer, sliced,
        detect_envelope(analyzer.envelope_detector, audio_meta, sliced.slice))

\* BandAnalyzer::detect_envelope after apply_band_filter
band_envelope_of_filtered(analyzer, filtered, band_pass_buffer, audio_meta) ==
    IF IsPanic(filtered)
    THEN [analyzer |-> analyzer, buffer |-> band_pass_buffer,
          slice |-> None, ret |-> Panic]
    ELSE band_envelope_of_slice(analyzer, continuous_slice(Unwrap(filtered)),
                                audio_meta)

\* BandAnalyzer::detect_envelope: the analyzer and the buffer afterwards, the
\* slice handed to the envelope detector (None when the filter panicked), and
\* what is returned: None, Some(envelope) or Panic.  The debug assertion on
\* the length is repeated by the first assertion of apply_band_filter.
BandAnalyzer_detect_envelope(analyzer, original_samples, band_pass_buffer, audio_meta) ==
    band_envelope_of_filtered(analyzer,
        apply_band_filter(analyzer, original_samples, band_pass_buffer),
        band_pass_buffer, audio_meta)

----------------------------------------------------------------------------
(* beat_info.rs and beat_detector.rs *)

\* BeatInfo::new
BeatInfoNew(bpm, frequency_band, envelope) ==
    [bpm |-> bpm, envelope |-> envelope, frequency_band |-> frequency_band]

\* RingBufferWithSerialSliceAccess::<Option<Envelope>, 10>::new
BeatHistoryNew ==
    [buffer |-> [i \in 0..9 |-> None],
     continuous_slice_buffer |-> [i \in 0..9 |-> None],
     continuous_slice_buffer_valid |-> TRUE,
     write_index |-> 0,
     len |-> 0]

\* BeatDetector::new, the AudioHistory and the band-pass buffer with capacity
\* buffer_capacity in place of AUDIO_HISTORY_DEFAULT_BUFFER_SIZE
BeatDetectorNew(buffer_capacity, sampling_rate) ==
    [audio_history |-> [ring_buffer |-> RingBufferNew(buffer_capacity),
                        meta |-> AudioHistoryMetaNew(buffer_capacity, sampling_rate)],
     beat_history |-> BeatHistoryNew,
     assert_values_done |-> FALSE,
     low_band_analyzer |-> Unwrap(new_low(sampling_rate, TRUE))]

\* BeatDetector::assert_new_audio_data: whether the assertion failed, and the
\* warnings logged
assert_new_audio_data(detector, new_audio_data) ==
    [panicked |->
         /\ ~detector.assert_values_done
         /\ \E k \in 1..Len(new_audio_data) :
                new_audio_data[k] > 10000 /\ new_audio_data[k] < -10000,
     log |->
         IF Len(new_audio_data) < 50 THEN <<"small">>
         ELSE IF Len(new_audio_data)
                   * detector.audio_history.meta.time_per_sample > 100000
         THEN <<"big">>
         ELSE <<>>]

record_beat_unrecorded(detector, envelope) ==
    [detector |-> detector,
     ret |-> Some(BeatInfoNew(1, "Low", envelope))]

\* the end of on_new_audio for an envelope: the detector afterwards and what
\* is returned
record_beat(detector, envelope) ==
    [detector |-> [detector EXCEPT
                      !.beat_history = push(detector.beat_history, Some(envelope))],
     ret |-> Some(BeatInfoNew(1, "Low", envelope))]

\* on_new_audio after the band analyzer has returned
on_new_audio_analyzed(detector, band, logged) ==
    LET analyzed == [detector EXCEPT !.low_band_analyzer = band.analyzer]
        beat == record_beat(analyzed, Unwrap(band.ret))
    IN [detector |-> IF IsSome(band.ret) THEN beat.detector ELSE analyzed,
        buffer |-> band.buffer,
        log |-> logged,
        slice |-> band.slice,
        envelope |-> band.ret,
        ret |-> IF IsSome(band.ret) THEN beat.ret ELSE band.ret]

\* on_new_audio after audio_history.update
on_new_audio_updated(detector, new_audio_data, band_pass_buffer, logged) ==
    on_new_audio_analyzed(detector,
        BandAnalyzer_detect_envelope(detector.low_band_analyzer, new_audio_data,
                                     band_pass_buffer,
                                     detector.audio_history.meta),
        logged)

\* on_new_audio after assert_new_audio_data
on_new_audio_checked(detector, new_audio_data, band_pass_buffer, checked) ==
    IF checked.panicked
    THEN [detector |-> [detector EXCEPT !.assert_values_done = TRUE],
          buffer |-> band_pass_buffer, log |-> <<>>, slice |-> None,
          envelope |-> None, ret |-> Panic]
    ELSE on_new_audio_updated(
             [detector EXCEPT
                 !.assert_values_done = TRUE,
                 !.audio_history =
                     [ring_buffer |-> extend_from_slice(
                                          detector.audio_history.ring_buffer,
                                          new_audio_data),
                      meta |-> meta_update(detector.audio_history.meta,
                                           new_audio_data)]],
             new_audio_data, band_pass_buffer, checked.log)

\* BeatDetector::on_new_audio: the detector and the band-pass buffer
\* afterwards, the warnings logged, the slice handed to the envelope detector,
\* what the band analyzer returned, and what is returned: None,
\* Some(BeatInfo) or Panic
on_new_audio(detector, new_audio_data, band_pass_buffer) ==
    on_new_audio_checked(detector, new_audio_data, band_pass_buffer,
                         assert_new_audio_data(detector, new_audio_data))

----------------------------------------------------------------------------
(* The BeatDetector on a stream of chunks: one on_new_audio call per step,
   until a call panics. *)

BeatUnused == <<ring_buffer, meta, envelope_detector, pushed, consumed, old_len,
                chunk_len, envelopes, samples, start, zero_iter, minmax_iter,
                yielded, band_args,
    cfg, keep_recording, stream, pc, captured, beats>>

\* n samples of silence
Zeros(n) == [k \in 1..n |-> 0]

\* BeatDetector::new with the given capacity and one of the sampling rates
InitBeatDetector(buffer_capacity, sampling_rates) ==
    /\ \E sampling_rate \in sampling_rates :
           beat_detector = BeatDetectorNew(buffer_capacity, sampling_rate)
    /\ band_pass_samples_buffer = RingBufferNew(buffer_capacity)
    /\ log = <<>>
    /\ result = None
    /\ observed = [calls |-> 0, chunk |-> <<>>, stream |-> <<>>,
                   slice |-> None, filtered |-> <<>>, envelope |-> None,
                   beat_history_before |-> BeatHistoryNew]
    /\ band_args = None
    /\ ring_buffer = None /\ meta = None /\ envelope_detector = None
    /\ pushed = <<>> /\ consumed = 0 /\ old_len = 0 /\ chunk_len = 0
    /\ envelopes = <<>> /\ samples = <<>> /\ start = None
    /\ zero_iter = None /\ minmax_iter = None /\ yielded = <<>>
    /\ NotListening

\* beat_detector.on_new_audio(new_audio_data) with one of the chunks, for at
\* most max_calls calls
OnNewAudioUpTo(chunks, max_calls) ==
    \E new_audio_data \in chunks :
        /\ ~(IsOp(result, "on_new_audio") /\ IsPanic(Unwrap(result).on_new_audio))
        /\ observed.calls < max_calls
        /\ \E r \in {on_new_audio(beat_detector, new_audio_data,
                                  band_pass_samples_buffer)} :
              /\ beat_detector' = r.detector
              /\ band_pass_samples_buffer' = r.buffer
              /\ log' = r.log
              /\ result' = Some([on_new_audio |-> r.ret])
              /\ observed' =
                     [calls |-> observed.calls + 1,
                      chunk |-> new_audio_data,
                      stream |-> observed.stream \o new_audio_data,
                      slice |-> r.slice,
                      filtered |->
                          IF IsSome(r.slice)
                          THEN observed.filtered
                                   \o LastN(Unwrap(r.slice),
                                            Min(Len(Unwrap(r.slice)),
                                                Len(new_audio_data)))
                          ELSE observed.filtered,
                      envelope |-> r.envelope,
                      beat_history_before |-> beat_detector.beat_history]
        /\ UNCHANGED BeatUnused

\* a kick: a quiet swing, a loud one, a quiet one, silence (11 samples)
Thump == <<0, 1000, -1000, 10000, -10000, 1000, -1000, 0, 0, 0, 0>>

\* the kick with samples of 2.0 and -2.0, outside [-1, 1] (12 samples)
Clipped == <<0, 2000, -2000, 20000, -20000, 2000, -2000, 0, 0, 0, 0, 0>>

\* the chunks handed to on_new_audio: silence of 10, 11 and 50 samples and of
\* one sample more than the buffers hold, the kick, its first 10 samples, and
\* the kick out of range
BeatChunks ==
    {Zeros(10), Zeros(11), Zeros(50), Zeros(BeatCap + 1), Thump,
     SubSeq(Thump, 1, 10), Clipped}

InitBeat == InitBeatDetector(BeatCap, BeatSamplingRates)

OnNewAudio == OnNewAudioUpTo(BeatChunks, MaxCalls)

NextBeat == OnNewAudio

SpecBeat == InitBeat /\ [][NextBeat]_vars

(* The BeatDetector on a long stream of kicks and silence, its buffers one
   kick long, so that every kick is analysed afresh. *)

InitBeatHistory == InitBeatDetector(KickCap, {200})

OnKickOrSilence == OnNewAudioUpTo({Thump, Zeros(Len(Thump))}, MaxKickCalls)

NextBeatHistory == OnKickOrSilence

SpecBeatHistory == InitBeatHistory /\ [][NextBeatHistory]_vars

(* The BeatDetector on chunks of varying length: a long chunk with a kick at
   its end, then shorter ones, the buffers holding three kicks. *)

\* silence followed by the kick (22 samples)
LateThump == Zeros(Len(Thump)) \o Thump

VaryingChunks == {LateThump, Thump, Zeros(Len(Thump)), Zeros(2 * Len(Thump))}

InitBeatVarying == InitBeatDetector(3 * KickCap, {200})

OnVaryingChunk == OnNewAudioUpTo(VaryingChunks, MaxCalls)

NextBeatVarying == OnVaryingChunk

SpecBeatVarying == InitBeatVarying /\ [][NextBeatVarying]_vars

----------------------------------------------------------------------------
(* BandAnalyzer::new on its own: the arguments and the build are chosen, then
   the constructor runs once. *)

BandUnused == <<ring_buffer, meta, envelope_detector, pushed, consumed, old_len,
                chunk_len, envelopes, samples, start, zero_iter, minmax_iter,
                yielded, beat_detector, band_pass_samples_buffer, log, observed,
    cfg, keep_recording, stream, pc, captured, beats>>

InitBand ==
    /\ band_args \in [lower_frequency : BandFrequencies,
                      higher_frequency : BandFrequencies,
                      sampling_frequency : BandSamplingFrequencies,
                      debug_assertions : BOOLEAN]
    /\ result = None
    /\ beat_detector = None /\ band_pass_samples_buffer = None /\ log = <<>>
    /\ observed = None
    /\ ring_buffer = None /\ meta = None /\ envelope_detector = None
    /\ pushed = <<>> /\ consumed = 0 /\ old_len = 0 /\ chunk_len = 0
    /\ envelopes = <<>> /\ samples = <<>> /\ start = None
    /\ zero_iter = None /\ minmax_iter = None /\ yielded = <<>>
    /\ NotListening

\* BandAnalyzer::new(lower_frequency, higher_frequency, sampling_frequency)
NewBandAnalyzer ==
    /\ result = None
    /\ result' = Some([new |-> BandAnalyzerNew(band_args.lower_frequency,
                                               band_args.higher_frequency,
                                               band_args.sampling_frequency,
                                               band_args.debug_assertions)])
    /\ UNCHANGED band_args
    /\ UNCHANGED BandUnused

NextBand == NewBandAnalyzer

SpecBand == InitBand /\ [][NextBand]_vars

----------------------------------------------------------------------------
(* record/util.rs and record/audio_input.rs: start_listening on one thread,
   the callback of the input stream on the audio thread, and a thread that
   calls stop_work on the shared CondVarSpinlock, at any time and any number
   of times. *)

ListenUnused == <<ring_buffer, meta, envelope_detector, pushed, consumed, old_len,
                  chunk_len, envelopes, samples, start, zero_iter, minmax_iter,
                  yielded, observed, band_args>>

\* CondVarSpinlock::new: WORK_DO; the mutex is free and nobody waits on the
\* condvar.  spurious is history: a spurious wakeup has happened.
CondVarSpinlockNew ==
    [continue_work |-> TRUE, mutex |-> "free", spurious |-> FALSE]

\* CondVarSpinlock::is_stopped
is_stopped(lock) == ~lock.continue_work

wait_once(woken, continue_work) ==
    IF continue_work /\ ~woken THEN "waiting" ELSE "pause"

\* Condvar::wait_while with the guard held: where the thread goes after
\* evaluating |continue_work| *continue_work, the first time or after a wakeup
wait_while(woken, continue_work) ==
    IF continue_work THEN "waiting" ELSE "pause"

\* samples.chunks_exact(2).map(|vals| (vals[0] + vals[1]) / 2.0)
mono_samples(data) ==
    [k \in 1..(Len(data) \div 2) |-> (data[2 * k - 1] + data[2 * k]) \div 2]

on_audio_cb_new_detector(detector, band_pass_buffer, is_mono, data) ==
    LET r == on_new_audio(
                 BeatDetectorNew(detector.audio_history.meta.buffer_capacity,
                                 detector.audio_history.meta.sampling_rate),
                 IF is_mono THEN data ELSE mono_samples(data),
                 RingBufferNew(capacity(band_pass_buffer)))
    IN [detector |-> r.detector, buffer |-> r.buffer, log |-> r.log, ret |-> r.ret,
        on_beat_cb |-> IF IsSome(r.ret) THEN <<Unwrap(r.ret)>> ELSE <<>>]

\* the closure start_listening hands to the input stream: the detector and
\* its buffer afterwards, what on_new_audio returned, and the arguments of
\* the on_beat_cb calls made
on_audio_cb(detector, band_pass_buffer, is_mono, data) ==
    LET r == on_new_audio(detector,
                          IF is_mono THEN data ELSE mono_samples(data),
                          band_pass_buffer)
    IN [detector |-> r.detector, buffer |-> r.buffer, log |-> r.log, ret |-> r.ret,
        on_beat_cb |-> IF IsSome(r.ret) THEN <<Unwrap(r.ret)>> ELSE <<>>]

\* LRLR interleaving of a left and a right channel of equal length
Interleave(left, right) ==
    [k \in 1..(2 * Len(left)) |->
        IF k % 2 = 1 THEN left[(k + 1) \div 2] ELSE right[k \div 2]]

\* the chunks the device delivers: mono a kick or silence; stereo the same on
\* both channels, a kick on the left channel only, and a kick with an odd
\* sample at the end.  The two samples of a frame have an even sum, so that
\* their mean is a whole number of 1/10000.
ListenChunks(channels) ==
    IF channels = 1 THEN {Thump, Zeros(Len(Thump))}
    ELSE {Interleave(Thump, Thump),
          Interleave(Zeros(Len(Thump)), Zeros(Len(Thump))),
          Interleave(Thump, Zeros(Len(Thump))),
          Interleave(Thump, Thump) \o <<10000>>}

\* start_listening is entered: no usable input config (None), or one with a
\* channel count and a sampling rate; the caller holds a new CondVarSpinlock
InitListen ==
    /\ cfg \in {None} \cup {Some([channels |-> c, sample_rate |-> r]) :
                               c \in ListenChannels, r \in ListenSamplingRates}
    /\ keep_recording = CondVarSpinlockNew
    /\ stream = None
    /\ pc = [start_listening |-> "start", stop_work |-> "idle"]
    /\ captured = <<>> /\ beats = <<>>
    /\ result = None
    /\ beat_detector = None /\ band_pass_samples_buffer = None /\ log = <<>>
    /\ observed = None /\ band_args = None
    /\ ring_buffer = None /\ meta = None /\ envelope_detector = None
    /\ pushed = <<>> /\ consumed = 0 /\ old_len = 0 /\ chunk_len = 0
    /\ envelopes = <<>> /\ samples = <<>> /\ start = None
    /\ zero_iter = None /\ minmax_iter = None /\ yielded = <<>>

\* start_listening up to the built stream: Err(()) without device or config
\* or when the stream cannot be built, a panic on a channel count other than
\* 1 and 2, else the detector and the stream
BuildStream ==
    /\ pc.start_listening = "start"
    /\ \E built \in BOOLEAN :
           IF cfg = None
           THEN /\ pc' = [pc EXCEPT !.start_listening = "err"]
                /\ UNCHANGED <<beat_detector, band_pass_samples_buffer, stream>>
           ELSE IF ~(Unwrap(cfg).channels = 1 \/ Unwrap(cfg).channels = 2)
           THEN /\ pc' = [pc EXCEPT !.start_listening = "panicked"]
                /\ UNCHANGED <<beat_detector, band_pass_samples_buffer, stream>>
           ELSE /\ beat_detector' = BeatDetectorNew(KickCap, Unwrap(cfg).sample_rate)
                /\ band_pass_samples_buffer' = RingBufferNew(KickCap)
                /\ stream' = IF built THEN Some("built") ELSE None
                /\ pc' = [pc EXCEPT !.start_listening = IF built THEN "play" ELSE "err"]
    /\ UNCHANGED <<cfg, keep_recording, captured, beats, result, log>>
    /\ UNCHANGED ListenUnused

\* stream.play().map_err(|_e| ())?
Play ==
    /\ pc.start_listening = "play"
    /\ \E played \in BOOLEAN :
           /\ stream' = IF played THEN Some("playing") ELSE Some("dropped")
           /\ pc' = [pc EXCEPT !.start_listening = IF played THEN "lock" ELSE "err"]
    /\ UNCHANGED <<cfg, keep_recording, captured, beats, result, log,
                   beat_detector, band_pass_samples_buffer>>
    /\ UNCHANGED ListenUnused

\* block_until_stopped: self.continue_work_mutex.lock(), and the lock taken
\* again inside the wait after a wakeup
Lock ==
    /\ pc.start_listening \in {"lock", "relock"}
    /\ keep_recording.mutex = "free"
    /\ keep_recording' = [keep_recording EXCEPT !.mutex = "start_listening"]
    /\ pc' = [pc EXCEPT !.start_listening =
                  IF pc.start_listening = "lock" THEN "check" ELSE "recheck"]
    /\ UNCHANGED <<cfg, stream, captured, beats, result, log,
                   beat_detector, band_pass_samples_buffer>>
    /\ UNCHANGED ListenUnused

\* block_until_stopped: wait_while evaluates the condition with the lock
\* held, then either waits, releasing the lock, or returns, and the guard is
\* dropped
WaitWhile ==
    /\ pc.start_listening \in {"check", "recheck"}
    /\ keep_recording' = [keep_recording EXCEPT !.mutex = "free"]
    /\ pc' = [pc EXCEPT !.start_listening =
                  wait_while(pc.start_listening = "recheck",
                             keep_recording.continue_work)]
    /\ UNCHANGED <<cfg, stream, captured, beats, result, log,
                   beat_detector, band_pass_samples_buffer>>
    /\ UNCHANGED ListenUnused

\* a wakeup of the waiting thread that no notify_one has caused
SpuriousWakeup ==
    /\ pc.start_listening = "waiting"
    /\ keep_recording' = [keep_recording EXCEPT !.spurious = TRUE]
    /\ pc' = [pc EXCEPT !.start_listening = "relock"]
    /\ UNCHANGED <<cfg, stream, captured, beats, result, log,
                   beat_detector, band_pass_samples_buffer>>
    /\ UNCHANGED ListenUnused

\* stream.pause().map_err(|_e| ())?; Ok(()): the stream is dropped on return
Pause ==
    /\ pc.start_listening = "pause"
    /\ \E paused \in BOOLEAN :
           /\ stream' = IF paused THEN Some("paused") ELSE Some("dropped")
           /\ pc' = [pc EXCEPT !.start_listening = IF paused THEN "done" ELSE "err"]
    /\ UNCHANGED <<cfg, keep_recording, captured, beats, result, log,
                   beat_detector, band_pass_samples_buffer>>
    /\ UNCHANGED ListenUnused

\* stop_work: self.continue_work_mutex.lock()
StopLock ==
    /\ pc.stop_work \in {"idle", "stopped"}
    /\ keep_recording.mutex = "free"
    /\ keep_recording' = [keep_recording EXCEPT !.mutex = "stop_work"]
    /\ pc' = [pc EXCEPT !.stop_work = "set"]
    /\ UNCHANGED <<cfg, stream, captured, beats, result, log,
                   beat_detector, band_pass_samples_buffer>>
    /\ UNCHANGED ListenUnused

\* stop_work: *lock = WORK_STOPPED
StopSet ==
    /\ pc.stop_work = "set"
    /\ keep_recording' = [keep_recording EXCEPT !.continue_work = FALSE]
    /\ pc' = [pc EXCEPT !.stop_work = "notify"]
    /\ UNCHANGED <<cfg, stream, captured, beats, result, log,
                   beat_detector, band_pass_samples_buffer>>
    /\ UNCHANGED ListenUnused

\* stop_work: self.condvar.notify_one() wakes the thread waiting, if any
NotifyOne ==
    /\ pc.stop_work = "notify"
    /\ pc' = [pc EXCEPT !.stop_work = "unlock",
                         !.start_listening =
                             IF pc.start_listening = "waiting" THEN "relock"
                             ELSE pc.start_listening]
    /\ UNCHANGED <<cfg, keep_recording, stream, captured, beats, result, log,
                   beat_detector, band_pass_samples_buffer>>
    /\ UNCHANGED ListenUnused

\* stop_work returns: the guard is dropped
StopUnlock ==
    /\ pc.stop_work = "unlock"
    /\ keep_recording' = [keep_recording EXCEPT !.mutex = "free"]
    /\ pc' = [pc EXCEPT !.stop_work = "stopped"]
    /\ UNCHANGED <<cfg, stream, captured, beats, result, log,
                   beat_detector, band_pass_samples_buffer>>
    /\ UNCHANGED ListenUnused

\* the playing stream delivers a chunk: one run of the closure on the audio
\* thread
OnAudio ==
    /\ stream = Some("playing")
    /\ Len(captured) < MaxListenChunks
    /\ ~(IsOp(result, "on_new_audio") /\ IsPanic(Unwrap(result).on_new_audio))
    /\ \E data \in ListenChunks(Unwrap(cfg).channels) :
         \E r \in {on_audio_cb(beat_detector, band_pass_samples_buffer,
                                Unwrap(cfg).channels = 1, data)} :
           /\ beat_detector' = r.detector
           /\ band_pass_samples_buffer' = r.buffer
           /\ log' = r.log
           /\ result' = Some([on_new_audio |-> r.ret])
           /\ captured' = Append(captured, data)
           /\ beats' = beats \o [k \in 1..Len(r.on_beat_cb) |->
                                    [chunk |-> Len(captured) + 1,
                                     beat |-> r.on_beat_cb[k]]]
    /\ UNCHANGED <<cfg, keep_recording, stream, pc>>
    /\ UNCHANGED ListenUnused

NextListen ==
    \/ BuildStream \/ Play \/ Lock \/ WaitWhile \/ SpuriousWakeup \/ Pause
    \/ StopLock \/ StopSet \/ NotifyOne \/ StopUnlock
    \/ OnAudio

SpecListen == InitListen /\ [][NextListen]_vars

----------------------------------------------------------------------------
(* record/util.rs: one CondVarSpinlock shared by several threads that call
   block_until_stopped, each at any time, and a thread that calls stop_work,
   at any time and any number of times. *)

Waiters == 1..MaxWaiters

\* a new CondVarSpinlock behind an Arc; no thread has called anything yet
InitSpinlock ==
    /\ keep_recording = CondVarSpinlockNew
    /\ pc = [block_until_stopped |-> [t \in Waiters |-> "idle"],
             stop_work |-> "idle"]
    /\ cfg = None /\ stream = None /\ captured = <<>> /\ beats = <<>>
    /\ result = None
    /\ beat_detector = None /\ band_pass_samples_buffer = None /\ log = <<>>
    /\ observed = None /\ band_args = None
    /\ ring_buffer = None /\ meta = None /\ envelope_detector = None
    /\ pushed = <<>> /\ consumed = 0 /\ old_len = 0 /\ chunk_len = 0
    /\ envelopes = <<>> /\ samples = <<>> /\ start = None
    /\ zero_iter = None /\ minmax_iter = None /\ yielded = <<>>

SpinlockUnchanged ==
    /\ UNCHANGED <<cfg, stream, captured, beats, result, log,
                   beat_detector, band_pass_samples_buffer>>
    /\ UNCHANGED ListenUnused

\* thread t calls block_until_stopped
EnterBy(t) ==
    /\ pc.block_until_stopped[t] = "idle"
    /\ pc' = [pc EXCEPT !.block_until_stopped[t] = "lock"]
    /\ UNCHANGED keep_recording
    /\ SpinlockUnchanged

\* block_until_stopped on thread t: self.continue_work_mutex.lock(), and the
\* lock taken again inside the wait after a wakeup
LockBy(t) ==
    /\ pc.block_until_stopped[t] \in {"lock", "relock"}
    /\ keep_recording.mutex = "free"
    /\ keep_recording' = [keep_recording EXCEPT !.mutex = "block_until_stopped"]
    /\ pc' = [pc EXCEPT !.block_until_stopped[t] =
                  IF pc.block_until_stopped[t] = "lock" THEN "check" ELSE "recheck"]
    /\ SpinlockUnchanged

\* block_until_stopped on thread t: wait_while evaluates the condition with
\* the lock held, then either waits, releasing the lock, or returns, and the
\* guard is dropped
WaitWhileBy(t) ==
    /\ pc.block_until_stopped[t] \in {"check", "recheck"}
    /\ keep_recording' = [keep_recording EXCEPT !.mutex = "free"]
    /\ pc' = [pc EXCEPT !.block_until_stopped[t] =
                  IF wait_while(pc.block_until_stopped[t] = "recheck",
                                keep_recording.continue_work) = "waiting"
                  THEN "waiting" ELSE "returned"]
    /\ SpinlockUnchanged

\* a wakeup of the waiting thread t that no notify_one has caused
SpuriousWakeupOf(t) ==
    /\ pc.block_until_stopped[t] = "waiting"
    /\ keep_recording' = [keep_recording EXCEPT !.spurious = TRUE]
    /\ pc' = [pc EXCEPT !.block_until_stopped[t] = "relock"]
    /\ SpinlockUnchanged

\* stop_work: self.condvar.notify_one() wakes one of the threads waiting on
\* the condvar, whichever, if there is any
NotifyOneOf ==
    /\ pc.stop_work = "notify"
    /\ IF \E t \in Waiters : pc.block_until_stopped[t] = "waiting"
       THEN \E t \in Waiters :
                /\ pc.block_until_stopped[t] = "waiting"
                /\ pc' = [pc EXCEPT !.stop_work = "unlock",
                                     !.block_until_stopped[t] = "relock"]
       ELSE pc' = [pc EXCEPT !.stop_work = "unlock"]
    /\ UNCHANGED keep_recording
    /\ SpinlockUnchanged

Enter == \E t \in Waiters : EnterBy(t)
LockWaiter == \E t \in Waiters : LockBy(t)
WaitWhileWaiter == \E t \in Waiters : WaitWhileBy(t)
SpuriousWakeupWaiter == \E t \in Waiters : SpuriousWakeupOf(t)

NextSpinlock ==
    \/ Enter \/ LockWaiter \/ WaitWhileWaiter \/ SpuriousWakeupWaiter
    \/ StopLock \/ StopSet \/ NotifyOneOf \/ StopUnlock

SpecSpinlock == InitSpinlock /\ [][NextSpinlock]_vars

\* what the scheduler and the mutex give: a thread inside block_until_stopped
\* or stop_work that can take its next step takes it, and a thread that finds
\* the mutex free again and again gets it.  Nothing makes a thread call
\* block_until_stopped or stop_work, and nothing makes a wakeup happen that
\* no notify_one has caused.
SpinlockFairness ==
    /\ \A t \in Waiters : SF_vars(LockBy(t)) /\ WF_vars(WaitWhileBy(t))
    /\ WF_vars(StopSet) /\ WF_vars(NotifyOneOf) /\ WF_vars(StopUnlock)

SpecSpinlockLive == SpecSpinlock /\ SpinlockFairness

----------------------------------------------------------------------------
(* Claims about the ring buffer (SpecRing). *)

\* C4: whenever continuous_slice returns, the slice is exactly the last
\* min(k, N) items pushed since construction or the last clear (k pushes),
\* oldest first and newest last; with no push it is the empty sequence.
C4_SliceIsLatestItems ==
    IsSome(result) =>
        Unwrap(result).slice = LastN(pushed, Min(Len(pushed), capacity(ring_buffer)))

\* C4 witness: a slice was returned after the buffer wrapped around with the
\* write cursor away from position 0, so items were dropped and rearranged.
C4_Witness ==
    /\ IsSome(result)
    /\ Len(pushed) > capacity(ring_buffer)
    /\ ring_buffer.write_index # 0
    /\ Len(Unwrap(result).slice) = capacity(ring_buffer)
    /\ Unwrap(result).slice[1] # Unwrap(result).slice[capacity(ring_buffer)]

----------------------------------------------------------------------------
(* Claims about the AudioHistory (SpecHistory). *)

\* C3: after update(chunk) the recorded eviction count E is 0 when
\* old_len + new_len <= capacity, old_len + new_len - capacity when the buffer
\* becomes full in this update and new_len when it was full already; for every
\* index i < old_len, calc_index_after_update(i) is None exactly when i < E and
\* Some(i - E) otherwise, and i - E < len().
C3_EvictionCount ==
    LET E == meta.amount_outfaded_elements
        cap == meta.buffer_capacity
    IN /\ E = IF old_len + chunk_len <= cap THEN 0
              ELSE IF old_len < cap THEN old_len + chunk_len - cap
              ELSE chunk_len
       /\ \A i \in 0..(old_len - 1) :
              /\ i < E => calc_index_after_update(meta, i) = None
              /\ i >= E => /\ calc_index_after_update(meta, i) = Some(i - E)
                           /\ i - E < meta_len(meta)

\* C3 witness: the buffer became full during the latest update, which evicted
\* some but not all of the old samples, and calc_index_after_update was asked
\* about a sample that survived and moved.
C3_Witness ==
    /\ old_len < meta.buffer_capacity
    /\ old_len + chunk_len > meta.buffer_capacity
    /\ meta.amount_outfaded_elements > 0
    /\ meta.amount_outfaded_elements < old_len
    /\ IsOp(result, "calc_index_after_update")
    /\ Unwrap(result).index = old_len - 1
    /\ Unwrap(result).calc_index_after_update =
           Some(old_len - 1 - meta.amount_outfaded_elements)

\* C5: len() never exceeds the capacity, never decreases from one update to
\* the next, and stays at the capacity once it has reached it.
C5_LenMonotone ==
    /\ [](meta_len(meta) <= meta.buffer_capacity)
    /\ [][/\ meta_len(meta') >= meta_len(meta)
          /\ meta_len(meta) = meta.buffer_capacity
                 => meta_len(meta') = meta'.buffer_capacity]_vars

\* C5 witness: an update arrived while the buffer was already full.
C5_Witness ==
    /\ old_len = meta.buffer_capacity
    /\ chunk_len > 0
    /\ meta_len(meta) = meta.buffer_capacity
    /\ consumed > meta.buffer_capacity

\* C6: the total sample count and the total relative time depend only on how
\* many samples were consumed, not on how they were split into chunks: the
\* count is the number of samples consumed, the time is that count times the
\* time per sample, and amount_new_samples_on_latest_update is the length of
\* the latest chunk.
C6_TimeFromTotalCount ==
    /\ meta.amount_total_consumed_samples = consumed
    /\ meta.total_relative_time = consumed * meta.time_per_sample
    /\ meta.amount_new_samples_on_latest_update = chunk_len

\* C6 witness: several samples were consumed in more than one chunk, the
\* latest chunk holding more than one sample.
C6_Witness ==
    /\ consumed >= 5
    /\ chunk_len >= 2
    /\ chunk_len < consumed - 1
    /\ meta.total_relative_time = consumed * meta.time_per_sample

\* C7: for an index of the current view, time_of_sample returns
\* total_relative_time - (len() - 1 - index) * time_per_sample, which is the
\* time of that sample's position in the stream; the newest sample has time
\* total_relative_time and the times increase strictly with the index; the call
\* fails for an index >= capacity and when no sample was ever consumed.
C7_TimeOfSample ==
    LET n == meta_len(meta)
        tps == meta.time_per_sample
    IN /\ \A index \in 0..(n - 1) :
              /\ time_of_sample(meta, index) =
                     Some(meta.total_relative_time - (n - 1 - index) * tps)
              /\ time_of_sample(meta, index) =
                     Some((consumed - n + index + 1) * tps)
              /\ index + 1 < n =>
                     Unwrap(time_of_sample(meta, index))
                         < Unwrap(time_of_sample(meta, index + 1))
       /\ n > 0 => time_of_sample(meta, n - 1) = Some(meta.total_relative_time)
       /\ \A index \in meta.buffer_capacity..(meta.buffer_capacity + 1) :
              time_of_sample(meta, index) = Panic
       /\ consumed = 0 =>
              \A index \in 0..(meta.buffer_capacity - 1) :
                  time_of_sample(meta, index) = Panic

\* C7 witness: time_of_sample was called for the oldest sample of a full
\* buffer that has already dropped samples, and returned a time.
C7_Witness ==
    /\ consumed > meta.buffer_capacity
    /\ IsOp(result, "time_of_sample")
    /\ Unwrap(result).index = 0
    /\ Unwrap(result).time_of_sample =
           Some((consumed - meta.buffer_capacity + 1) * meta.time_per_sample)

----------------------------------------------------------------------------
(* Claims about the peak primitives (SpecPeaks). *)

\* preferred_start_index.unwrap_or(0)
StartIndex == IF IsSome(start) THEN Unwrap(start) ELSE 0

\* the indices i + 1, i >= from, where samples[i] is non-zero and samples[i + 1]
\* is zero or of the opposite sign
CrossingSet(s, from) ==
    {i + 1 : i \in {j \in from..(Len(s) - 2) :
                       /\ At(s, j) # 0
                       /\ At(s, j + 1) = 0 \/ At(s, j) * At(s, j + 1) < 0}}

RECURSIVE SortedSeq(_)
SortedSeq(S) ==
    IF S = {} THEN <<>>
    ELSE LET m == CHOOSE x \in S : \A y \in S : x <= y
         IN <<m>> \o SortedSeq(S \ {m})

Range(seq) == {seq[k] : k \in 1..Len(seq)}

\* C8: no peak returned by detect_peaks has an absolute amplitude below the
\* noise floor 0.05, neither as the rounded peak value nor as the sample it
\* was taken from.
C8_NoPeakBelowNoiseFloor ==
    (IsOp(result, "detect_peaks") /\ IsSome(Unwrap(result).detect_peaks)) =>
        LET peaks == Unwrap(Unwrap(result).detect_peaks)
        IN \A k \in 1..Len(peaks) :
               /\ abs_value(peaks[k]) * 10 >= MINIMUM_PEAK
               /\ Abs(At(samples, peaks[k].sample_index)) >= MINIMUM_PEAK

\* C8 witness: detect_peaks returned a peak and left out an extremum of the
\* scanner, on a signal read from a start index.
C8_Witness ==
    /\ IsOp(result, "detect_peaks")
    /\ IsSome(Unwrap(result).detect_peaks)
    /\ IsSome(start)
    /\ Len(Unwrap(Unwrap(result).detect_peaks)) >= 1
    /\ Len(drain(samples, Unwrap(minmax_iter)))
           > Len(Unwrap(Unwrap(result).detect_peaks))

\* the left bounds of the scanner's segments followed by the last right
\* bound: the start index when the sample there is zero, then the zero crossings
SegmentBounds ==
    SortedSeq((IF At(samples, StartIndex) = 0 THEN {StartIndex} ELSE {})
              \cup CrossingSet(samples, StartIndex))

\* C9: the k-th extremum of the scanner is the index and the value of a sample
\* of maximum absolute value within the k-th segment [a, b) between
\* consecutive zero crossings, the latest one when several tie; nothing is
\* yielded for the samples before the first crossing when the start sample is
\* non-zero, nor for those after the last crossing.
C9_ExtremumPerSegment ==
    (IsSome(minmax_iter) /\ IsOp(result, "minmax_next")) =>
        LET B == SegmentBounds
        IN /\ ~IsPanic(Unwrap(result).minmax_next)
           /\ Len(yielded) <= (IF Len(B) = 0 THEN 0 ELSE Len(B) - 1)
           /\ Unwrap(result).minmax_next = None =>
                  Len(yielded) = (IF Len(B) = 0 THEN 0 ELSE Len(B) - 1)
           /\ \A k \in 1..Len(yielded) :
                  LET a == B[k]
                      b == B[k + 1]
                      e == yielded[k]
                  IN /\ e.index \in a..(b - 1)
                     /\ e.value = At(samples, e.index)
                     /\ \A j \in a..(b - 1) : Abs(At(samples, j)) <= Abs(e.value)
                     /\ \A j \in (e.index + 1)..(b - 1) :
                            Abs(At(samples, j)) < Abs(e.value)

\* C9 witness: the scanner, started on a non-zero sample, has yielded an
\* extremum from a segment in which two samples tie for the maximum, and
\* then ran out of segments with samples left after the last crossing.
C9_Witness ==
    /\ IsSome(minmax_iter)
    /\ IsOp(result, "minmax_next")
    /\ Unwrap(result).minmax_next = None
    /\ At(samples, StartIndex) # 0
    /\ Len(yielded) >= 1
    /\ \E k \in 1..Len(yielded) :
           /\ yielded[k].index > 0
           /\ At(samples, yielded[k].index - 1) = yielded[k].value
    /\ SegmentBounds[Len(SegmentBounds)] < Len(samples) - 1

\* C10: started at index s, the zero-crossing iterator yields in strictly
\* increasing order exactly the indices i + 1, i >= s, where samples[i] is
\* non-zero and samples[i + 1] is zero or of the opposite sign: every item is
\* such an index, none is skipped, and when the iterator is exhausted all of
\* them were yielded; zeros where a search starts yield nothing.
C10_ZeroCrossings ==
    (IsSome(zero_iter) /\ IsOp(result, "zero_next")) =>
        LET Z == CrossingSet(samples, StartIndex)
        IN /\ \A k \in 1..Len(yielded) : yielded[k] \in Z
           /\ \A k \in 1..(Len(yielded) - 1) : yielded[k] < yielded[k + 1]
           /\ \A z \in Z : (Len(yielded) > 0 /\ z < yielded[Len(yielded)])
                               => z \in Range(yielded)
           /\ Unwrap(result).zero_next = None => Range(yielded) = Z
           /\ IsSome(Unwrap(result).zero_next) =>
                  /\ Len(yielded) > 0
                  /\ Unwrap(Unwrap(result).zero_next) = yielded[Len(yielded)]

\* C10 witness: the iterator was started inside a run of zeros after the
\* beginning of the signal, yielded two crossings, one onto a zero, and
\* was exhausted.
C10_Witness ==
    /\ IsSome(zero_iter)
    /\ IsOp(result, "zero_next")
    /\ Unwrap(result).zero_next = None
    /\ IsSome(start) /\ Unwrap(start) > 0
    /\ At(samples, StartIndex) = 0
    /\ Len(yielded) >= 2
    /\ \E k \in 1..Len(yielded) : At(samples, yielded[k]) = 0

----------------------------------------------------------------------------
(* C1: for any sequence of detect_envelope calls on one detector, one call
   per history update, two returned envelopes never overlap: the begin peak of
   the later envelope is a sample strictly after the end peak of the earlier
   one on the stream, so no peak belongs to two returned envelopes, also
   while the samples of the earlier envelope are still inside the analysed
   window.  The reported timestamps, rounded to 1 ms, are ordered the same
   way, with equality possible only through the rounding. *)
C1_EnvelopesDoNotOverlap ==
    \A i, j \in 1..Len(envelopes) :
        i < j => /\ envelopes[j].begin_pos > envelopes[i].end_pos
                 /\ envelopes[j].begin_time >= envelopes[i].end_time

\* a second envelope has just been returned while the end peak of the
\* previous one is still inside the analysed window
C1_Witness ==
    /\ Len(envelopes) >= 2
    /\ IsOp(result, "detect_envelope")
    /\ IsSome(Unwrap(result).detect_envelope)
    /\ envelopes[Len(envelopes) - 1].end_pos
           >= meta.amount_total_consumed_samples - meta_len(meta)

----------------------------------------------------------------------------
(* C2: every Envelope returned by detect_envelope has
   begin.time < highest.time < end.time, |begin| * 2.1 < |highest| and
   |end| * 2.1 < |highest|, for every signal and every history of calls.
   The code breaks the last part: the second skip_while of find_envelope_end
   compares peaks by their timestamp rounded to 1 ms, so where two successive
   peaks share a timestamp it steps from the peak that met the ratio to the
   next one, which need not meet it. *)
C2_EnvelopeOrderAndRatio ==
    (IsOp(result, "detect_envelope") /\ IsSome(Unwrap(result).detect_envelope))
    => LET envelope == Unwrap(Unwrap(result).detect_envelope)
       IN /\ envelope.begin.relative_time < envelope.highest.relative_time
          /\ envelope.highest.relative_time < envelope.end.relative_time
          /\ Abs(envelope.begin.value) * 21 < Abs(envelope.highest.value) * 10
          /\ Abs(envelope.end.value) * 21 < Abs(envelope.highest.value) * 10

----------------------------------------------------------------------------
(* C19: time_of_sample(index) returns 0.0 when the buffer holds fewer samples
   than the index requires, len() <= index < capacity.  The code panics
   there instead (see time_of_sample). *)
C19_ZeroForMissingSample ==
    (/\ IsOp(result, "time_of_sample")
     /\ meta.amount_total_consumed_samples > 0
     /\ meta_len(meta) <= Unwrap(result).index
     /\ Unwrap(result).index < meta.buffer_capacity)
    => /\ IsSome(Unwrap(result).time_of_sample)
       /\ Unwrap(Unwrap(result).time_of_sample) = 0

----------------------------------------------------------------------------
(* C20: calc_index_after_update(index) panics when the index is not the index
   of a sample that was in the buffer before the latest update
   (index >= length before that update), and it returns None only for indices
   that were present before and have faded out.  The code compares the index
   with the length after the update, and with the eviction count alone. *)
C20_PanicsForUnknownIndex ==
    IsOp(result, "calc_index_after_update")
    => LET index == Unwrap(result).index
           ret == Unwrap(result).calc_index_after_update
       IN /\ index >= old_len => IsPanic(ret)
          /\ ret = None => index < old_len

----------------------------------------------------------------------------
\* the peak without its number
PeakAt(peak) == <<peak.sample_index, peak.value, peak.relative_time>>

\* the first sample index whose segment is extracted in full when the
\* extraction starts at index s: s itself when the sample there is zero, else
\* the next zero crossing (or the end of the signal)
FirstExtractedIndex(sig, s) ==
    IF At(sig, s) = 0 THEN s
    ELSE LET later == CrossingSet(sig, s)
         IN IF later = {} THEN Len(sig)
            ELSE CHOOSE c \in later : \A d \in later : c <= d

(* C18: detect_peaks with a preferred start index s returns a suffix of
   detect_peaks without a start index over the same signal: the same sample
   indices and values, exactly the peaks behind the segment that contains a
   non-zero sample at s, numbered from 0 again. *)
C18_StartIndexYieldsSuffix ==
    (/\ IsOp(result, "detect_peaks")
     /\ IsSome(start)
     /\ Unwrap(start) < Len(samples))
    => LET with_start == Unwrap(result).detect_peaks
           full == detect_peaks(samples, meta, None)
       IN /\ IsSome(with_start) /\ IsSome(full)
          /\ LET w == Unwrap(with_start)
                 f == Unwrap(full)
                 first == FirstExtractedIndex(samples, Unwrap(start))
                 later == SelectSeq(f, LAMBDA p : p.sample_index >= first)
             IN /\ Len(w) <= Len(f)
                /\ \A k \in 1..Len(w) :
                       /\ PeakAt(w[k]) = PeakAt(f[Len(f) - Len(w) + k])
                       /\ w[k].peak_number = k - 1
                /\ Len(w) = Len(later)
                /\ \A k \in 1..Len(w) : PeakAt(w[k]) = PeakAt(later[k])

\* a start index on a non-zero sample withholds a peak and returns two
C18_Witness ==
    /\ IsOp(result, "detect_peaks")
    /\ IsSome(start)
    /\ Unwrap(start) < Len(samples)
    /\ At(samples, Unwrap(start)) # 0
    /\ IsSome(Unwrap(result).detect_peaks)
    /\ Len(Unwrap(Unwrap(result).detect_peaks)) = 2
    /\ Len(Unwrap(detect_peaks(samples, meta, None))) = 3

----------------------------------------------------------------------------
(* Claims about the BeatDetector (SpecBeat, SpecBeatHistory). *)

\* the zero-crossing iterator, the extremum scanner, detect_peaks and
\* detect_envelope, each run from the start on signal sig, yield nothing
YieldsNothing(sig, audio_meta) ==
    /\ ZeroOfFunctionIteratorNew(sig, None) = Some([index |-> 0])
    /\ zero_next(sig, [index |-> 0]).item = None
    /\ LET it == LocalMinMaxIteratorNew(sig, None)
       IN IF sig = <<>> THEN IsPanic(it)
          ELSE IsSome(it) /\ minmax_next(sig, Unwrap(it)).item = None
    /\ LET peaks == detect_peaks(sig, audio_meta, None)
       IN IF sig = <<>> THEN IsPanic(peaks) ELSE peaks = Some(<<>>)
    /\ LET d == detect_envelope(EnvelopeDetectorNew, audio_meta, sig)
       IN IF sig = <<>> THEN IsPanic(d.ret) ELSE d.ret = None

(* C11: a signal of zeros only, of any length, yields no zero crossing, no
   extremum, no peak and no envelope (the empty signal is rejected by the
   extremum scanner); as long as only zeros were fed through on_new_audio, no
   call returns a beat, and what the envelope detector is handed is zeros
   only. *)
C11_SilenceYieldsNothing ==
    (/\ observed.calls > 0
     /\ \A k \in 1..Len(observed.stream) : observed.stream[k] = 0)
    => /\ ~IsSome(Unwrap(result).on_new_audio)
       /\ beat_detector.beat_history.len = 0
       /\ \A n \in 0..Len(observed.chunk) :
              YieldsNothing(Zeros(n), beat_detector.audio_history.meta)
       /\ IsSome(observed.slice) =>
              /\ Unwrap(observed.slice) = Zeros(Len(Unwrap(observed.slice)))
              /\ YieldsNothing(Unwrap(observed.slice),
                               beat_detector.audio_history.meta)
              /\ observed.envelope = None
              /\ Unwrap(result).on_new_audio = None

\* C11 witness: silence was fed in several calls, the latest one as a chunk
\* of 50 samples, and the call returned without a beat
C11_Witness ==
    /\ observed.calls > 2
    /\ \A k \in 1..Len(observed.stream) : observed.stream[k] = 0
    /\ Len(observed.chunk) = 50
    /\ IsSome(observed.slice)
    /\ Len(Unwrap(observed.slice)) > 0
    /\ Unwrap(result).on_new_audio = None

----------------------------------------------------------------------------
(* C12: on_new_audio returns a BeatInfo exactly when the band analyzer
   returned an envelope in that call; the BeatInfo carries that envelope, the
   band Low and the placeholder BPM 1; the envelope is pushed to the beat
   history, which keeps the latest 10 entries at most; a call without an
   envelope returns nothing and leaves the beat history as it was. *)
C12_BeatIffEnvelope ==
    observed.calls > 0 =>
        LET ret == Unwrap(result).on_new_audio
            before == continuous_slice(observed.beat_history_before).slice
            after == continuous_slice(beat_detector.beat_history).slice
        IN /\ IsSome(ret) <=> IsSome(observed.envelope)
           /\ Len(after) <= 10
           /\ IsSome(observed.envelope) =>
                  /\ Unwrap(ret).envelope = Unwrap(observed.envelope)
                  /\ Unwrap(ret).frequency_band = "Low"
                  /\ Unwrap(ret).bpm = 1
                  /\ after = LastN(Append(before, Some(Unwrap(observed.envelope))),
                                   Min(Len(before) + 1, 10))
           /\ ~IsSome(observed.envelope) =>
                  /\ ret = observed.envelope
                  /\ beat_detector.beat_history = observed.beat_history_before

\* C12 witness: a beat was returned while the beat history held 10 envelopes
\* already, so the oldest one was discarded
C12_Witness ==
    /\ observed.calls > 10
    /\ IsSome(observed.envelope)
    /\ IsSome(Unwrap(result).on_new_audio)
    /\ observed.beat_history_before.len = 10
    /\ beat_detector.beat_history.len = 10
    /\ continuous_slice(beat_detector.beat_history).slice[1]
           # continuous_slice(observed.beat_history_before).slice[1]

----------------------------------------------------------------------------
\* the chunk of the latest call is shorter than 50 samples or longer than
\* 100 ms
AtypicalChunk ==
    \/ Len(observed.chunk) < 50
    \/ Len(observed.chunk) * beat_detector.audio_history.meta.time_per_sample
           > 100000

\* the AudioHistory holds the latest samples of everything handed to
\* on_new_audio, the chunk of the latest call included
HistoryUpdated ==
    LET audio_history == beat_detector.audio_history
    IN /\ audio_history.meta.amount_total_consumed_samples = Len(observed.stream)
       /\ audio_history.meta.amount_new_samples_on_latest_update
              = Len(observed.chunk)
       /\ continuous_slice(audio_history.ring_buffer).slice
              = LastN(observed.stream,
                      Min(Len(observed.stream), audio_history.meta.buffer_capacity))

(* C13 as stated: on_new_audio accepts a chunk of any size; for a chunk
   shorter than 50 samples (chunks of 1 to 10 samples included) or longer than
   100 ms it only logs a warning, does not fail, and still updates the history
   and runs detection on the chunk. *)
C13_AnyChunkSizeAccepted ==
    (observed.calls > 0 /\ AtypicalChunk)
    => /\ Len(log) = 1
       /\ ~IsPanic(Unwrap(result).on_new_audio)
       /\ HistoryUpdated
       /\ IsSome(observed.slice)

(* C13 amended: on_new_audio accepts a chunk of 11 samples up to the capacity
   of the band-pass buffer; for such a chunk shorter than 50 samples or longer
   than 100 ms it only logs a warning, the chunk size does not make the call
   fail, and it still updates the history and runs the filter and the
   detection on the chunk.  A chunk of 1 to 10 samples, or one longer than the
   buffer, is a fatal failure in the band filter, after the warning and the
   update of the history. *)
C13_ChunkSizeWarning ==
    observed.calls > 0 =>
        LET n == Len(observed.chunk)
        IN /\ log = IF n < 50 THEN <<"small">>
                    ELSE IF AtypicalChunk THEN <<"big">> ELSE <<>>
           /\ HistoryUpdated
           /\ (n > 10 /\ n <= capacity(band_pass_samples_buffer)) =>
                  /\ IsSome(observed.slice)
                  /\ Len(Unwrap(observed.slice)) = n
           /\ (n <= 10 \/ n > capacity(band_pass_samples_buffer)) =>
                  /\ observed.slice = None
                  /\ IsPanic(Unwrap(result).on_new_audio)

\* C13 witness: a later call with a chunk of 11 samples logged the warning
\* about a small window, updated the history and ran the detection
C13_Witness ==
    /\ observed.calls > 1
    /\ Len(observed.chunk) = 11
    /\ log = <<"small">>
    /\ HistoryUpdated
    /\ IsSome(observed.slice)
    /\ ~IsPanic(Unwrap(result).on_new_audio)

----------------------------------------------------------------------------
(* C14: on the first on_new_audio call of a detector a chunk with a sample
   greater than 1.0 or less than -1.0 is a fatal failure; later calls skip
   the range check.  The condition of the assertion, x > 1.0 && x < -1.0,
   holds for no sample, so the first call does not fail either. *)
C14_FirstChunkRangeChecked ==
    observed.calls > 0 =>
        /\ (/\ observed.calls = 1
            /\ \E k \in 1..Len(observed.chunk) :
                   observed.chunk[k] > 10000 \/ observed.chunk[k] < -10000)
           => IsPanic(Unwrap(result).on_new_audio)
        /\ beat_detector.assert_values_done

----------------------------------------------------------------------------
(* Claims about BandAnalyzer::new (SpecBand). *)

(* C15 as stated: the construction of a BandAnalyzer fails unless
   0 < lower < upper <= sampling_rate / 2, in every build. *)
C15_RejectsInvalidBand ==
    IsOp(result, "new") =>
        (~(/\ 0 < band_args.lower_frequency
           /\ band_args.lower_frequency < band_args.higher_frequency
           /\ 2 * band_args.higher_frequency <= band_args.sampling_frequency)
         => IsPanic(Unwrap(result).new))

(* C15 amended: in a build with debug assertions the construction of a
   BandAnalyzer fails unless lower, upper and the sampling rate are normal
   numbers (not zero) with lower < upper <= sampling_rate / 2; a zero lower
   cutoff, lower >= upper, or an upper cutoff above Nyquist is rejected, a
   negative lower cutoff is not.  In a build without debug assertions the
   construction never fails. *)
C15_RejectsInvalidBandInDebugBuild ==
    IsOp(result, "new") =>
        (IsPanic(Unwrap(result).new)
         <=> /\ band_args.debug_assertions
             /\ ~(/\ band_args.lower_frequency # 0
                   /\ band_args.higher_frequency # 0
                   /\ band_args.sampling_frequency # 0
                   /\ band_args.lower_frequency < band_args.higher_frequency
                   /\ 2 * band_args.higher_frequency
                          <= band_args.sampling_frequency))

\* C15 witness: a build with debug assertions constructed a BandAnalyzer with
\* a negative lower cutoff
C15_Witness ==
    /\ IsOp(result, "new")
    /\ band_args.debug_assertions
    /\ band_args.lower_frequency < 0
    /\ IsSome(Unwrap(result).new)
    /\ Unwrap(Unwrap(result).new).lower_frequency = band_args.lower_frequency

----------------------------------------------------------------------------
\* sig band-passed in a single apply_band_filter call by the analyzer
BandPassed(analyzer, sig) ==
    band_passed_samples(sig, 1,
        DirectForm1New(high_pass_coefficients(analyzer)),
        DirectForm1New(low_pass_coefficients(analyzer)))

(* C16: the delay state of the band-pass filter is carried from one
   detect_envelope call to the next: the filtered samples of a stream
   delivered as chunks c1, c2, ... are the filtered samples of their
   concatenation filtered in one call.  apply_band_filter creates both
   filters anew in every call. *)
C16_FilterStateCarriedOver ==
    (observed.calls > 0 /\ Len(observed.filtered) = Len(observed.stream))
    => observed.filtered
           = BandPassed(beat_detector.low_band_analyzer, observed.stream)

----------------------------------------------------------------------------
(* C17: every BandAnalyzer::detect_envelope call appends the filtered chunk
   to the band-pass ring buffer and keeps the samples filtered before until
   the capacity evicts them: the slice handed to the envelope detector is the
   filtered history of the latest min(total consumed, N) samples.
   apply_band_filter clears the buffer first, and on_new_audio hands it the
   new chunk only. *)
C17_SliceIsFilteredHistory ==
    (/\ observed.calls > 0
     /\ IsSome(observed.slice)
     /\ Len(observed.filtered) = Len(observed.stream))
    => Unwrap(observed.slice)
           = LastN(observed.filtered,
                   Min(Len(observed.stream), capacity(band_pass_samples_buffer)))

----------------------------------------------------------------------------
\* the backing storage of the ring buffer from the write cursor on, wrapped
\* around: its content from the oldest to the newest slot
Straightened(rb) ==
    [k \in 0..(capacity(rb) - 1) |->
        rb.buffer[(rb.write_index + k) % capacity(rb)]]

(* C29: continuous_slice rebuilds the straightened copy only when a push or a
   clear has invalidated it and reuses it otherwise; with the write cursor at
   position 0 it returns the backing storage itself and leaves the copy and
   its flag alone; whenever the flag is set the copy is the straightened
   backing storage, and what is returned is the content of the buffer from
   the oldest to the newest item. *)
C29_CopyRebuiltWhenStale ==
    [][IsSome(result') =>
          /\ Unwrap(result').slice
                 = LastN(pushed, Min(Len(pushed), capacity(ring_buffer)))
          /\ IF ring_buffer.write_index = 0
                \/ ring_buffer.continuous_slice_buffer_valid
             THEN ring_buffer' = ring_buffer
             ELSE ring_buffer' =
                      [ring_buffer EXCEPT
                          !.continuous_slice_buffer = Straightened(ring_buffer),
                          !.continuous_slice_buffer_valid = TRUE]
          /\ ring_buffer'.continuous_slice_buffer_valid =>
                 ring_buffer'.continuous_slice_buffer = Straightened(ring_buffer')
      ]_vars

\* C29 witness: a slice was returned with the write cursor at position 0 after
\* the buffer had been filled, the copy still stale and different from the
\* content returned
C29_Witness ==
    /\ IsSome(result)
    /\ Len(pushed) >= capacity(ring_buffer)
    /\ ring_buffer.write_index = 0
    /\ ~ring_buffer.continuous_slice_buffer_valid
    /\ Unwrap(result).slice
           # SliceOf(ring_buffer.continuous_slice_buffer, 0, capacity(ring_buffer))

----------------------------------------------------------------------------
(* C30: a newly created ring buffer is filled with the default value and its
   length equals its capacity at once: a fresh AudioHistory consists of
   capacity-many zero samples.  The constructor sets the length to 0. *)
C30_FreshBufferIsFull ==
    consumed = 0 =>
        /\ \A i \in DOMAIN ring_buffer.buffer : ring_buffer.buffer[i] = Default
        /\ ring_buffer.len = capacity(ring_buffer)
        /\ continuous_slice(ring_buffer).slice
               = [k \in 1..capacity(ring_buffer) |-> Default]

----------------------------------------------------------------------------
\* the peaks returned by the detect_peaks call recorded in result
ReturnedPeaks == Unwrap(Unwrap(result).detect_peaks)

\* detect_peaks was run and returned
PeaksReturned == IsOp(result, "detect_peaks") /\ IsSome(Unwrap(result).detect_peaks)

\* sample i is an extremum of its own, between two sign changes, below the
\* noise floor
BelowFloorExtremum(s, i) ==
    /\ i >= 1 /\ i + 1 < Len(s)
    /\ At(s, i - 1) * At(s, i) < 0 /\ At(s, i) * At(s, i + 1) < 0
    /\ Abs(At(s, i)) < MINIMUM_PEAK

\* the peaks come in strictly increasing sample-index order and the k-th of
\* them has peak_number k
NumberedInOrder(peaks) ==
    /\ \A k \in 1..Len(peaks) : peaks[k].peak_number = k - 1
    /\ \A k \in 1..(Len(peaks) - 1) :
           peaks[k].sample_index < peaks[k + 1].sample_index

(* C27 as stated: detect_peaks returns the peaks in strictly increasing
   sample-index order, the k-th returned peak has peak_number k (numbered
   after the noise-floor filter), and each peak's time is time_of_sample of
   its sample index. *)
C27_NumberedInOrderExactTime ==
    PeaksReturned =>
        /\ NumberedInOrder(ReturnedPeaks)
        /\ \A k \in 1..Len(ReturnedPeaks) :
               Some(1000 * ReturnedPeaks[k].relative_time)
                   = time_of_sample(meta, ReturnedPeaks[k].sample_index)

(* C27 amended: detect_peaks returns the peaks in strictly increasing
   sample-index order, the k-th returned peak has peak_number k (numbered
   after the noise-floor filter), and each peak's time is time_of_sample of
   its sample index rounded to three decimals. *)
C27_NumberedInOrderRoundedTime ==
    PeaksReturned =>
        /\ NumberedInOrder(ReturnedPeaks)
        /\ \A k \in 1..Len(ReturnedPeaks) :
               LET time == time_of_sample(meta, ReturnedPeaks[k].sample_index)
               IN /\ IsSome(time)
                  /\ ReturnedPeaks[k].relative_time = round3(Unwrap(time), 1000)

\* C27 witness: two peaks were returned behind an extremum that the noise
\* floor removed, one of them at a time that is not a whole millisecond
C27_Witness ==
    /\ PeaksReturned
    /\ Len(ReturnedPeaks) >= 2
    /\ \E i \in 0..(ReturnedPeaks[1].sample_index - 1) :
           i >= StartIndex /\ BelowFloorExtremum(samples, i)
    /\ \E k \in 1..Len(ReturnedPeaks) :
           Unwrap(time_of_sample(meta, ReturnedPeaks[k].sample_index)) % 1000 # 0

(* C28: peaks are totally ordered by relative time: the outcome of comparing
   two peaks (==, !=, <, >, >=) is that of comparing their relative times
   rounded to three decimals, exactly one of a < b, a == b, a > b holds, and
   peaks of equal rounded time are equal whatever their values and sample
   indices. *)
C28_PeaksOrderedByTime ==
    PeaksReturned =>
        \A i, j \in 1..Len(ReturnedPeaks) :
            LET a == ReturnedPeaks[i]
                b == ReturnedPeaks[j]
                ta == round3(Unwrap(time_of_sample(meta, a.sample_index)), 1000)
                tb == round3(Unwrap(time_of_sample(meta, b.sample_index)), 1000)
            IN /\ peak_lt(a, b) <=> ta < tb
               /\ peak_eq(a, b) <=> ta = tb
               /\ peak_gt(a, b) <=> ta > tb
               /\ peak_ge(a, b) <=> ta >= tb
               /\ peak_ne(a, b) <=> ta # tb
               /\ \/ peak_lt(a, b) /\ ~peak_eq(a, b) /\ ~peak_gt(a, b)
                  \/ ~peak_lt(a, b) /\ peak_eq(a, b) /\ ~peak_gt(a, b)
                  \/ ~peak_lt(a, b) /\ ~peak_eq(a, b) /\ peak_gt(a, b)

\* C28 witness: two returned peaks of different value and sample index have
\* the same rounded time and compare equal
C28_Witness ==
    /\ PeaksReturned
    /\ \E i, j \in 1..Len(ReturnedPeaks) :
           /\ ReturnedPeaks[i].sample_index # ReturnedPeaks[j].sample_index
           /\ ReturnedPeaks[i].value # ReturnedPeaks[j].value
           /\ peak_eq(ReturnedPeaks[i], ReturnedPeaks[j])
           /\ ~peak_lt(ReturnedPeaks[i], ReturnedPeaks[j])

----------------------------------------------------------------------------
(* Claims about the envelope search (SpecEnvelope). *)

\* the smallest and the largest number of a non-empty set of numbers
MinOf(S) == CHOOSE x \in S : \A y \in S : x <= y
MaxOf(S) == CHOOSE x \in S : \A y \in S : x >= y

\* |p| * 2.1 < |max|
RatioMet(p, max) == Abs(p.value) * 21 < Abs(max.value) * 10

\* p is the earliest of the peaks with the largest absolute value
EarliestMaximum(peaks, p) ==
    \E k \in 1..Len(peaks) :
        /\ peaks[k] = p
        /\ \A j \in 1..Len(peaks) : Abs(peaks[j].value) <= Abs(p.value)
        /\ \A j \in 1..(k - 1) : Abs(peaks[j].value) < Abs(p.value)

\* the max peak of the extracted peaks, as detect_envelope chooses it
MaxPeak(peaks) == Unwrap(find_max_abs(peaks))

\* what is claimed of find_max_abs and of detect_envelope
MaxPeakAsClaimed(peaks, res) ==
    /\ IsOp(res, "find_max_abs") =>
           IF peaks = <<>> THEN Unwrap(res).find_max_abs = None
           ELSE /\ IsSome(Unwrap(res).find_max_abs)
                /\ EarliestMaximum(peaks, Unwrap(Unwrap(res).find_max_abs))
    /\ IsOp(res, "detect_envelope") =>
           /\ peaks = <<>> => Unwrap(res).detect_envelope = None
           /\ IsSome(Unwrap(res).detect_envelope) =>
                  EarliestMaximum(peaks, Unwrap(Unwrap(res).detect_envelope).highest)

(* C25: the max peak chosen by detect_envelope has the largest absolute value
   of all peaks extracted in the call, and is the earliest of them when
   several have it; when no peak is extracted, nothing is returned. *)
C25_MaxPeakIsEarliestMaximum ==
    ((IsOp(result, "find_max_abs") \/ IsOp(result, "detect_envelope"))
        /\ PeaksExtracted)
    => MaxPeakAsClaimed(ExtractedPeaks, result)

\* C25 witness: find_max_abs chose the first of two peaks of the largest
\* absolute value, with smaller peaks around
C25_Witness ==
    /\ IsOp(result, "find_max_abs")
    /\ IsSome(Unwrap(result).find_max_abs)
    /\ \E k \in 1..Len(ExtractedPeaks) :
           /\ k > Unwrap(Unwrap(result).find_max_abs).peak_number + 1
           /\ Abs(ExtractedPeaks[k].value)
                  = Abs(Unwrap(Unwrap(result).find_max_abs).value)
    /\ \E k \in 1..Len(ExtractedPeaks) :
           Abs(ExtractedPeaks[k].value)
               < Abs(Unwrap(Unwrap(result).find_max_abs).value)

\* positions (from 1) of the at most 7 peaks just before the max peak that
\* meet the ratio
BeginCandidates(peaks, max) ==
    {k \in 1..Len(peaks) :
        /\ k <= max.peak_number
        /\ k >= max.peak_number - 6
        /\ RatioMet(peaks[k], max)}

\* what is claimed of find_envelope_begin and of detect_envelope
BeginAsClaimed(peaks, max, res) ==
    /\ IsOp(res, "find_envelope_begin") =>
           IF BeginCandidates(peaks, max) = {}
           THEN Unwrap(res).find_envelope_begin = None
           ELSE Unwrap(res).find_envelope_begin
                    = Some(peaks[MaxOf(BeginCandidates(peaks, max))])
    /\ IsOp(res, "detect_envelope") =>
           /\ BeginCandidates(peaks, max) = {} => Unwrap(res).detect_envelope = None
           /\ IsSome(Unwrap(res).detect_envelope) =>
                  Unwrap(Unwrap(res).detect_envelope).begin
                      = peaks[MaxOf(BeginCandidates(peaks, max))]

(* C23: the envelope begin is found by scanning at most the 7 peaks just
   before the max peak, the closest first, and taking the first peak p with
   |p| * 2.1 < |max|; the max peak itself and peaks more than 7 positions
   before it are never chosen; if none of the scanned peaks qualifies (or the
   max peak is the first peak) no envelope is returned. *)
C23_BeginWithinSevenPeaks ==
    ((IsOp(result, "find_envelope_begin") \/ IsOp(result, "detect_envelope"))
        /\ PeaksExtracted /\ ExtractedPeaks # <<>>)
    => BeginAsClaimed(ExtractedPeaks, MaxPeak(ExtractedPeaks), result)

\* C23 witness: no begin was found although a peak 8 or more positions before
\* the max peak meets the ratio
C23_Witness ==
    /\ IsOp(result, "find_envelope_begin")
    /\ Unwrap(result).find_envelope_begin = None
    /\ \E k \in 1..Len(ExtractedPeaks) :
           /\ k < MaxPeak(ExtractedPeaks).peak_number - 6
           /\ RatioMet(ExtractedPeaks[k], MaxPeak(ExtractedPeaks))

\* the end of the envelope when the pairs behind the first current peak that
\* meets the ratio are skipped as long as KeepSkipping says
EndBy(peaks, max, KeepSkipping(_)) ==
    LET small == {k \in (max.peak_number + 2)..(Len(peaks) - 1) :
                     RatioMet(peaks[k], max)}
        rest == {k \in MinOf(small)..(Len(peaks) - 1) : ~KeepSkipping(k)}
    IN IF small = {} THEN None
       ELSE IF rest = {} THEN None
       ELSE Some(peaks[MinOf(rest)])

\* the pair (k, k + 1) is skipped while the absolute value of next is still
\* that of current or more, unless next is the last peak
EndByValue(peaks, max) ==
    EndBy(peaks, max,
          LAMBDA k : /\ Abs(peaks[k + 1].value) >= Abs(peaks[k].value)
                     /\ k + 1 # Len(peaks))

\* the pair (k, k + 1) is skipped while the rounded time of current is that
\* of next or more, unless next has the rounded time of the last peak
EndByTime(peaks, max) ==
    EndBy(peaks, max,
          LAMBDA k : /\ peaks[k].relative_time >= peaks[k + 1].relative_time
                     /\ peaks[k + 1].relative_time # peaks[Len(peaks)].relative_time)

\* find_envelope_end returned end; detect_envelope returns nothing without it
EndAsClaimed(end, res) ==
    /\ IsOp(res, "find_envelope_end") => Unwrap(res).find_envelope_end = end
    /\ IsOp(res, "detect_envelope") =>
           /\ end = None => Unwrap(res).detect_envelope = None
           /\ IsSome(Unwrap(res).detect_envelope) =>
                  Some(Unwrap(Unwrap(res).detect_envelope).end) = end

\* a search for the end, or detect_envelope, was run on some peaks
EndSearched ==
    /\ IsOp(result, "find_envelope_end") \/ IsOp(result, "detect_envelope")
    /\ PeaksExtracted /\ ExtractedPeaks # <<>>

(* C24 as stated: the envelope end is found by walking the pairs
   (current, next) from the peak just behind the max peak: pairs are skipped
   until current has |current| * 2.1 < |max|, then while the absolute value of
   next is still that of current or more, unless next is the last extracted
   peak; the current peak of the first pair left is the end, and with no pair
   left no envelope is returned. *)
C24_EndByDecayOfValue ==
    EndSearched =>
        EndAsClaimed(EndByValue(ExtractedPeaks, MaxPeak(ExtractedPeaks)), result)

(* C24 amended: as above, but after the first skip pairs are skipped while
   current compares >= next as peaks, that is by relative time rounded to
   three decimals (the two peaks share a rounded time), unless next compares
   equal to the last extracted peak. *)
C24_EndByPeakOrder ==
    EndSearched =>
        EndAsClaimed(EndByTime(ExtractedPeaks, MaxPeak(ExtractedPeaks)), result)

\* C24 witness: the end that was found is behind the first peak that meets
\* the ratio, because that peak shares its rounded time with the next one
C24_Witness ==
    /\ IsOp(result, "find_envelope_end")
    /\ IsSome(Unwrap(result).find_envelope_end)
    /\ \E k \in 1..Len(ExtractedPeaks) :
           /\ k > MaxPeak(ExtractedPeaks).peak_number + 1
           /\ k < Unwrap(Unwrap(result).find_envelope_end).peak_number + 1
           /\ RatioMet(ExtractedPeaks[k], MaxPeak(ExtractedPeaks))
           /\ ExtractedPeaks[k].relative_time = ExtractedPeaks[k + 1].relative_time

----------------------------------------------------------------------------
\* the stored index after a call that returned ret, given the index stored
\* before it and the history metadata of the call
StoredIndexAsClaimed(previous, audio_meta, ret) ==
    IF IsSome(ret) THEN Some(Unwrap(ret).end.sample_index)
    ELSE IF previous = None THEN None
    ELSE IF Unwrap(previous) < audio_meta.amount_outfaded_elements THEN None
    ELSE Some(Unwrap(previous) - audio_meta.amount_outfaded_elements)

(* C26: after a detect_envelope call the stored previous-envelope-end index is
   the end sample index of the returned envelope if one was returned;
   otherwise it is the index stored before, translated once through
   calc_index_after_update, or absent if it was absent or has left the
   window; a call that finds no envelope never resets a stored index that is
   still valid. *)
C26_StoredEndIndex ==
    [][(IsOp(result', "detect_envelope")
           /\ ~IsPanic(Unwrap(result').detect_envelope))
       => envelope_detector'.previous_envelope_end_peak_index
              = StoredIndexAsClaimed(envelope_detector.previous_envelope_end_peak_index,
                                     meta', Unwrap(result').detect_envelope)
      ]_vars

\* a call on a window that has moved found no envelope and kept the end index
\* of an earlier envelope, translated
StoredIndexKept ==
    /\ IsOp(result, "detect_envelope")
    /\ Unwrap(result).detect_envelope = None
    /\ Len(envelopes) >= 1
    /\ meta.amount_outfaded_elements > 0
    /\ IsSome(envelope_detector.previous_envelope_end_peak_index)
    /\ StreamPos(meta, Unwrap(envelope_detector.previous_envelope_end_peak_index))
           = envelopes[Len(envelopes)].end_pos

\* C26 witness: a call found no envelope and dropped the stored index, the
\* end of the latest envelope having left the window with this update
C26_Witness ==
    /\ IsOp(result, "detect_envelope")
    /\ Unwrap(result).detect_envelope = None
    /\ Len(envelopes) >= 1
    /\ envelope_detector.previous_envelope_end_peak_index = None
    /\ envelopes[Len(envelopes)].end_pos < StreamPos(meta, 0)
    /\ envelopes[Len(envelopes)].end_pos
           >= StreamPos(meta, 0) - meta.amount_outfaded_elements

----------------------------------------------------------------------------
(* Claims about start_listening and the CondVarSpinlock (SpecListen). *)

\* the mono signal of a delivered chunk, frame by frame
MonoOf(data) ==
    IF Unwrap(cfg).channels = 1 THEN data
    ELSE [k \in 1..(Len(data) \div 2) |-> (data[2 * k - 1] + data[2 * k]) \div 2]

\* the on_beat_cb calls due when one detector is fed the chunks from the k-th
\* on, in their order
RECURSIVE BeatsDue(_, _, _, _)
BeatsDue(chunks, k, detector, band_pass_buffer) ==
    IF k > Len(chunks) THEN <<>>
    ELSE LET r == on_new_audio(detector, MonoOf(chunks[k]), band_pass_buffer)
         IN (IF IsSome(r.ret) THEN <<[chunk |-> k, beat |-> Unwrap(r.ret)]>>
             ELSE <<>>)
            \o BeatsDue(chunks, k + 1, r.detector, r.buffer)

(* C21: in start_listening every captured chunk is fed to one single
   BeatDetector in the order of arrival, and on_beat_cb is called exactly
   once, with that beat, for each chunk for which on_new_audio returns a
   beat, and never for a chunk that yields none. *)
C21_OneCallbackPerBeat ==
    IsSome(stream) =>
        beats = BeatsDue(captured, 1,
                         BeatDetectorNew(KickCap, Unwrap(cfg).sample_rate),
                         RingBufferNew(KickCap))

\* C21 witness: of three stereo chunks delivered, the first and the last have
\* led to an on_beat_cb call and the second has not
C21_Witness ==
    /\ IsSome(cfg) /\ Unwrap(cfg).channels = 2
    /\ Len(captured) = 3
    /\ Len(beats) = 2
    /\ beats[1].chunk = 1 /\ beats[2].chunk = 3

(* C22: block_until_stopped never returns while the continue flag is true: in
   every interleaving a return from it comes after a stop_work call has
   cleared the flag; start_listening keeps the stream playing until then and
   pauses it only afterwards. *)
C22_BlocksUntilStopped ==
    /\ pc.start_listening \in {"lock", "check", "waiting", "relock", "recheck"}
           => stream = Some("playing")
    /\ (pc.start_listening \in {"pause", "done"} \/ stream = Some("paused"))
           => /\ is_stopped(keep_recording)
              /\ pc.stop_work # "idle"

\* C22 witness: start_listening has returned with the stream paused after a
\* spurious wakeup had sent it back to waiting
C22_Witness ==
    /\ pc.start_listening = "done"
    /\ stream = Some("paused")
    /\ keep_recording.spurious
    /\ Len(captured) >= 1

----------------------------------------------------------------------------
(* C36: after any sequence of AudioHistory::update calls, empty chunks and
   chunks longer than the capacity included, the length the metadata reports,
   min(total consumed, capacity), is the number of samples latest_audio()
   returns, and latest_audio() is the last len() samples consumed, in their
   order. *)
C36_LenMatchesLatestAudio ==
    /\ meta_len(meta) = Min(consumed, meta.buffer_capacity)
    /\ \E latest_audio \in {continuous_slice(ring_buffer).slice} :
           /\ Len(latest_audio) = meta_len(meta)
           /\ latest_audio = LastN(pushed, meta_len(meta))
    /\ IsOp(result, "slice") =>
           /\ Len(Unwrap(result).slice) = meta_len(meta)
           /\ Unwrap(result).slice = LastN(pushed, meta_len(meta))

\* C36 witness: latest_audio() was called after an empty chunk that followed a
\* chunk longer than the capacity, with two different samples in the view
C36_Witness ==
    /\ IsOp(result, "slice")
    /\ chunk_len = 0
    /\ consumed > meta.buffer_capacity
    /\ old_len = meta.buffer_capacity
    /\ Len(pushed) >= meta.buffer_capacity + 1
    /\ \E i, j \in 1..Len(Unwrap(result).slice) :
           Unwrap(result).slice[i] # Unwrap(result).slice[j]

----------------------------------------------------------------------------
\* the view latest_audio() would return, without rearranging anything
ViewOf(rb) == continuous_slice(rb).slice

\* what the index i of the view before an update is translated to after it:
\* the same sample at the same time, or a sample that left the view
TranslationKeeps(before_view, before_meta, after_view, after_meta, i) ==
    LET j == calc_index_after_update(after_meta, i)
        evicted == meta_len(before_meta) + after_meta.amount_new_samples_on_latest_update
                       - meta_len(after_meta)
    IN IF IsSome(j)
       THEN /\ Unwrap(j) < Len(after_view)
            /\ after_view[Unwrap(j) + 1] = before_view[i + 1]
            /\ \E time \in {time_of_sample(before_meta, i)} :
                   IsSome(time) /\ time_of_sample(after_meta, Unwrap(j)) = time
       ELSE j = None /\ i < evicted

\* the metadata before the latest update, as far as len() and time_of_sample
\* read it, and the view before it
MetaBeforeUpdate ==
    [meta EXCEPT !.amount_total_consumed_samples = consumed - chunk_len,
                 !.total_relative_time = (consumed - chunk_len) * meta.time_per_sample]
ViewBeforeUpdate == LastN(SubSeq(pushed, 1, Len(pushed) - chunk_len), old_len)

(* C31: index translation preserves the sample it refers to.  For every update
   and every index i valid before it, when calc_index_after_update(i) returns
   j, position j of latest_audio() after the update holds the sample position
   i held before it and time_of_sample(j) after the update is time_of_sample(i)
   before it; when it returns None, the sample has left the view. *)
C31_TranslationKeepsSample ==
    result = None =>
        \E before_view \in {ViewBeforeUpdate}, after_view \in {ViewOf(ring_buffer)} :
            \A i \in 0..(old_len - 1) :
                TranslationKeeps(before_view, MetaBeforeUpdate, after_view, meta, i)

\* C31 again, on the update steps themselves: the state before the step
\* against the state after it
C31_TranslationKeepsSampleStep ==
    [][result' = None =>
           \E before_view \in {ViewOf(ring_buffer)}, after_view \in {ViewOf(ring_buffer')} :
               \A i \in 0..(meta_len(meta) - 1) :
                   TranslationKeeps(before_view, meta, after_view, meta', i)]_vars

\* C31 witness: an update of a full history evicted some but not all of its
\* samples, which were not all equal: one index is translated to a smaller
\* one, another is gone
C31_Witness ==
    /\ result = None
    /\ old_len = meta.buffer_capacity
    /\ meta.amount_outfaded_elements \in 1..(old_len - 1)
    /\ \E i \in 0..(old_len - 1) :
           /\ IsSome(calc_index_after_update(meta, i))
           /\ Unwrap(calc_index_after_update(meta, i)) < i
           /\ ViewBeforeUpdate[i + 1] # ViewBeforeUpdate[1]
    /\ \E i \in 0..(old_len - 1) : calc_index_after_update(meta, i) = None

----------------------------------------------------------------------------
\* the indices of the items handed out so far by the iterator under test
YieldedIndices ==
    IF IsOp(result, "minmax_next")
    THEN [k \in 1..Len(yielded) |-> yielded[k].index]
    ELSE yielded

(* C38: for every finite signal and every start index the zero-crossing
   iterator and the extremum scanner terminate.  Each call to next returns an
   index of the signal strictly larger than the one before it, or None; the
   assertion of the scanner that a segment starts strictly before its closing
   zero crossing never fails; and once None was returned, the next call
   returns None again. *)
C38_IteratorsTerminate ==
    /\ IsOp(result, "zero_next") \/ IsOp(result, "minmax_next") =>
           /\ \A k \in 1..Len(YieldedIndices) :
                  /\ YieldedIndices[k] \in 0..(Len(samples) - 1)
                  /\ k > 1 => YieldedIndices[k - 1] < YieldedIndices[k]
           /\ Len(yielded) <= Len(samples)
    /\ IsOp(result, "zero_next") =>
           /\ ~IsPanic(Unwrap(result).zero_next)
           /\ Unwrap(result).zero_next = None =>
                  zero_next(samples, Unwrap(zero_iter)).item = None
    /\ IsOp(result, "minmax_next") =>
           /\ ~IsPanic(Unwrap(result).minmax_next)
           /\ ~IsPanic(minmax_next(samples, Unwrap(minmax_iter)).item)
           /\ Unwrap(result).minmax_next = None =>
                  minmax_next(samples, Unwrap(minmax_iter)).item = None

\* C38 witness: the scanner, started at an index, handed out two extrema and
\* then returned None
C38_Witness ==
    /\ IsOp(result, "minmax_next")
    /\ IsSome(start)
    /\ Unwrap(start) > 0
    /\ Len(yielded) >= 2
    /\ Unwrap(result).minmax_next = None

\* C38 second case reached as well: the zero-crossing iterator ran dry after
\* two crossings
C38_ZeroWitness ==
    /\ IsOp(result, "zero_next")
    /\ Len(yielded) >= 2
    /\ Unwrap(result).zero_next = None

----------------------------------------------------------------------------
\* the number of extracted peaks behind the given one
PeaksBehind(peaks, peak) ==
    Cardinality({k \in 1..Len(peaks) : peaks[k].sample_index > peak.sample_index})

\* the end peak is one of the extracted peaks, with a peak behind it, and two
\* peaks are behind the apex
EndIsFollowed(peaks, end, highest) ==
    /\ \E k \in 1..Len(peaks) : peaks[k] = end
    /\ end # peaks[Len(peaks)]
    /\ PeaksBehind(peaks, end) >= 1
    /\ PeaksBehind(peaks, highest) >= 2

(* C35: an envelope is returned only when at least one extracted peak follows
   its end peak and at least two extracted peaks follow its apex; a decayed
   peak that is the last extracted peak of the view is never accepted as the
   end in that call. *)
C35_EndIsNeverTheLastPeak ==
    /\ IsOp(result, "detect_envelope") /\ IsSome(Unwrap(result).detect_envelope) =>
           EndIsFollowed(ExtractedPeaks, Unwrap(Unwrap(result).detect_envelope).end,
                         Unwrap(Unwrap(result).detect_envelope).highest)
    /\ IsOp(result, "find_envelope_end") /\ IsSome(Unwrap(result).find_envelope_end) =>
           EndIsFollowed(ExtractedPeaks, Unwrap(Unwrap(result).find_envelope_end),
                         MaxPeak(ExtractedPeaks))

\* C35, the refusing case: no end was found although the last extracted peak is behind
\* the apex and has decayed below the ratio
C35_Witness ==
    /\ IsOp(result, "find_envelope_end")
    /\ Unwrap(result).find_envelope_end = None
    /\ PeaksBehind(ExtractedPeaks, MaxPeak(ExtractedPeaks)) >= 1
    /\ RatioMet(ExtractedPeaks[Len(ExtractedPeaks)], MaxPeak(ExtractedPeaks))

\* C35 witness: an envelope was returned whose end is the last
\* but one extracted peak
C35_ReturnedWitness ==
    /\ IsOp(result, "detect_envelope")
    /\ IsSome(Unwrap(result).detect_envelope)
    /\ PeaksBehind(ExtractedPeaks, Unwrap(Unwrap(result).detect_envelope).end) = 1

----------------------------------------------------------------------------
\* begin < highest < end on the rounded relative times, whenever a begin and
\* an end are both found for the max peak
OrderingHolds(peaks, max_peak) ==
    LET begin == find_envelope_begin(peaks, max_peak)
        end == find_envelope_end(peaks, max_peak)
    IN IsSome(begin) /\ IsSome(end) =>
           /\ Unwrap(begin).relative_time < max_peak.relative_time
           /\ max_peak.relative_time < Unwrap(end).relative_time

(* C34: the ordering assertions of detect_envelope and Envelope::new
   (begin < highest < end, compared on relative times rounded to three
   decimals) never fail: for every peak list the extractor can produce,
   whenever a begin and an end are both found, their rounded times are
   strictly before and strictly after the rounded time of the max peak, also
   when neighbouring peaks are less than one millisecond apart; so
   detect_envelope does not panic there. *)
C34_OrderingAssertionsHold ==
    IsOp(result, "detect_envelope") /\ PeaksExtracted /\ ExtractedPeaks # <<>> =>
        /\ OrderingHolds(ExtractedPeaks, MaxPeak(ExtractedPeaks))
        /\ ~IsPanic(Unwrap(result).detect_envelope)

----------------------------------------------------------------------------
(* Claims about the slice and the metadata that on_new_audio hands to the
   envelope detector (SpecBeat, SpecBeatVarying). *)

(* C32: in every on_new_audio call the band-passed slice analysed by the
   envelope detector has the length and the index space of the sample history
   that the metadata passed with it describes: slice length = meta.len().
   on_new_audio hands over the filtered chunk of the call only. *)
C32_SliceHasHistoryLength ==
    (observed.calls > 0 /\ IsSome(observed.slice)) =>
        Len(Unwrap(observed.slice)) = meta_len(beat_detector.audio_history.meta)

\* the start index of the peak extraction of a call: the index stored by the
\* detector before the call, translated with the metadata of the call
TranslatedStart(detector_before, detector_after) ==
    LET previous == detector_before.low_band_analyzer.envelope_detector
                        .previous_envelope_end_peak_index
    IN IF IsSome(previous)
       THEN calc_index_after_update(detector_after.audio_history.meta,
                                    Unwrap(previous))
       ELSE None

(* C33: across any sequence of on_new_audio calls with chunks of varying
   length, the start index handed to the peak extraction (the translated
   previous-envelope-end index) is smaller than the length of the slice being
   analysed, so that the bounds assertions of the constructors of the
   segmenter and the scanner never fail. *)
C33_StartIndexInsideSlice ==
    [][IsSome(observed'.slice) =>
           \A start_index \in {TranslatedStart(beat_detector, beat_detector')} :
               /\ ~IsPanic(start_index)
               /\ IsSome(start_index) =>
                      /\ Unwrap(start_index) < Len(Unwrap(observed'.slice))
                      /\ ~IsPanic(ZeroOfFunctionIteratorNew(Unwrap(observed'.slice),
                                                            start_index))
                      /\ ~IsPanic(LocalMinMaxIteratorNew(Unwrap(observed'.slice),
                                                         start_index))]_vars

----------------------------------------------------------------------------
(* Claims about the CondVarSpinlock shared by several threads
   (SpecSpinlockLive). *)

\* thread t is inside block_until_stopped
Inside(t) == pc.block_until_stopped[t] \notin {"idle", "returned"}

(* C37: once stop_work has been called, every thread blocked in
   block_until_stopped, and every thread that enters it later, eventually
   returns, for any number of waiting threads; nothing sets the flag back, so
   is_stopped stays true from then on.  stop_work wakes one waiting thread
   only. *)
C37_EveryWaiterReturns ==
    /\ \A t \in Waiters :
           (is_stopped(keep_recording) /\ Inside(t))
               ~> (pc.block_until_stopped[t] = "returned")
    /\ [](is_stopped(keep_recording) => [](is_stopped(keep_recording)))

\* the part of C37 that holds: the flag is never set back
C37_StaysStopped ==
    [][is_stopped(keep_recording) => is_stopped(keep_recording')]_vars

\* the part of C37 that holds: after stop_work a thread that is not waiting
\* on the condvar returns, and of the threads waiting one is woken and
\* returns
C37_OneWaiterReturns ==
    /\ \A t \in Waiters :
           (is_stopped(keep_recording) /\ Inside(t)
                /\ pc.block_until_stopped[t] # "waiting")
               ~> (pc.block_until_stopped[t] = "returned")
    /\ (pc.stop_work = "notify" /\ \E t \in Waiters : Inside(t))
           ~> (\E t \in Waiters : pc.block_until_stopped[t] = "returned")

====
